---- MODULE Spec2Model ----
(***************************************************************************)
(* Access decision and notification dispatch pipeline of barrier-control.  *)
(*                                                                         *)
(* The model follows server/routers.ts (recognition.analyze, barrier.open),*)
(* server/db.ts (tables and their access functions), the notification      *)
(* services (emailNotification.ts, blacklistNotification.ts,               *)
(* telegramNotification.ts) and the quiet hours service (quietHours.ts).   *)
(*                                                                         *)
(* Strings whose content is computed on (license plates) are sequences of  *)
(* one-character strings, so that normalisation is an actual computation.  *)
(***************************************************************************)
EXTENDS Integers, Sequences, FiniteSets, TLC

VARIABLES
    blacklist,       \* table blacklist: sequence of rows, id = position
    vehicles,        \* table vehicles: sequence of rows, id = position
    passages,        \* table passages (append only), id = position
    barrierActions,  \* table barrierActions (append only)
    notifLog,        \* calls made to the notification services, in order
    settings,        \* table settings, one field per key
    calls,           \* per request handler: the request in flight and its locals
    nextReq,         \* number of requests accepted so far
    pendingNotifications, \* table pendingNotifications, id = position
    now,             \* time of day seen by new Date(): <<hours, minutes>>
    qh,              \* quiet hours service: last call of queueOrSendNotification
    drain,           \* quiet hours service: the sendPendingSummary run and past digests
    hw,              \* barrier and camera integrations, and the last call made to them
    admin,           \* registry administration (vehicles.*, blacklist.*): the last call
    tgCall,          \* telegramNotification.sendTelegramMessage: the last call
    runs             \* sendPendingSummary invocations that run at the same time

vars == <<blacklist, vehicles, passages, barrierActions, notifLog, settings,
          calls, nextReq, pendingNotifications, now, qh, drain, hw, admin, tgCall, runs>>

----------------------------------------------------------------------------
(* Bounds of the model *)

\* Number of request handlers that may run at the same time.
NumProcs == 2

\* Number of requests accepted in one behaviour.
MaxCalls == 2

\* Number of queueOrSendNotification calls in one behaviour.
MaxQueued == 2

Procs == 1..NumProcs

----------------------------------------------------------------------------
(* Strings and license plates *)

Unset == "unset"          \* a missing settings row, or a NULL value

ToUpperCase(c) ==
    CASE c = "a" -> "A"
      [] c = "b" -> "B"
      [] c = "c" -> "C"
      [] c = "d" -> "D"
      [] c = "e" -> "E"
      [] c = "f" -> "F"
      [] OTHER -> c

Newline == "\n"

\* A character matched by \s, or removed by trim()
IsWhitespace(c) == c = " " \/ c = Newline

RECURSIVE StripWhitespace(_)
StripWhitespace(s) ==
    IF s = <<>> THEN <<>>
    ELSE IF IsWhitespace(Head(s)) THEN StripWhitespace(Tail(s))
    ELSE <<Head(s)>> \o StripWhitespace(Tail(s))

\* licensePlate.toUpperCase().replace(/\s/g, '')
NormalizePlate(s) == StripWhitespace([i \in 1..Len(s) |-> ToUpperCase(s[i])])

\* The classifier's plate: a string or null.
NoPlate == [isNull |-> TRUE, text |-> <<>>]
PlateOf(s) == [isNull |-> FALSE, text |-> s]

\* JavaScript truthiness of result.plate: null and "" are falsy.
Truthy(plate) == ~plate.isNull /\ plate.text # <<>>

\* The literal 'UNKNOWN' of result.plate || 'UNKNOWN'
UNKNOWN == <<"UNKNOWN">>

\* Plates the classifier may return (besides null): as read from the image, in
\* any case and with whitespace.
RawPlates ==
    { <<>>, <<"a", " ">>, <<"B">>, <<"c">>, <<" ", "d">>, <<"E">>, <<"f">> }

ClassifierPlates == {NoPlate} \cup {PlateOf(s) : s \in RawPlates}

----------------------------------------------------------------------------
(* Tables *)

Severities == {"low", "medium", "high", "critical"}

\* A row of table blacklist. expired stands for
\* expiresAt IS NOT NULL AND expiresAt < now.
BlacklistRow(plate, status, severity) ==
    [ licensePlate      |-> plate,
      isActive          |-> status # "inactive",
      expired           |-> status = "expired",
      notifyOnDetection |-> status # "silent",
      severity          |-> severity,
      attemptCount      |-> 0 ]

VehicleRow(plate, status) ==
    [ licensePlate |-> plate, isActive |-> status = "active" ]

\* The registry the pipeline is run against:
\*   A  blacklisted (active, notifying) and an active vehicle
\*   B  an active vehicle
\*   C  in neither table
\*   D  a deactivated blacklist entry and a deactivated vehicle
\*   E  an expired blacklist entry and an active vehicle
\*   F  blacklisted (active, not notifying)
InitialBlacklist ==
    << BlacklistRow(<<"A">>, "active", "critical"),
       BlacklistRow(<<"D">>, "inactive", "high"),
       BlacklistRow(<<"E">>, "expired", "medium"),
       BlacklistRow(<<"F">>, "silent", "low") >>

InitialVehicles ==
    << VehicleRow(<<"A">>, "active"),
       VehicleRow(<<"B">>, "active"),
       VehicleRow(<<"D">>, "inactive"),
       VehicleRow(<<"E">>, "active") >>

MinOf(S) == CHOOSE x \in S : \A y \in S : x <= y

NoEntry ==
    [ found |-> FALSE, id |-> 0, licensePlate |-> <<>>, notifyOnDetection |-> FALSE,
      severity |-> "medium", attemptCount |-> 0 ]

EntryOf(tbl, i) ==
    [ found |-> TRUE, id |-> i, licensePlate |-> tbl[i].licensePlate,
      notifyOnDetection |-> tbl[i].notifyOnDetection,
      severity |-> tbl[i].severity, attemptCount |-> tbl[i].attemptCount ]

\* db.isPlateBlacklisted: the active, non-expired entry of the normalized plate.
IsPlateBlacklisted(tbl, text) ==
    LET n == NormalizePlate(text)
        ids == { i \in DOMAIN tbl :
                   /\ tbl[i].licensePlate = n
                   /\ tbl[i].isActive
                   /\ ~tbl[i].expired }
    IN IF ids = {} THEN NoEntry ELSE EntryOf(tbl, MinOf(ids))

\* db.incrementBlacklistAttempt: attemptCount = attemptCount + 1 in one statement.
IncrementBlacklistAttempt(tbl, id) ==
    [tbl EXCEPT ![id].attemptCount = @ + 1]

NoVehicle == [found |-> FALSE, id |-> 0, isActive |-> FALSE]

\* db.getVehicleByPlate: the row of the normalized plate, active or not.
GetVehicleByPlate(tbl, text) ==
    LET n == NormalizePlate(text)
        ids == { i \in DOMAIN tbl : tbl[i].licensePlate = n }
    IN IF ids = {} THEN NoVehicle
       ELSE [found |-> TRUE, id |-> MinOf(ids), isActive |-> tbl[MinOf(ids)].isActive]

\* input.autoOpen is z.boolean().optional()
AutoOpenValues == {"true", "false", "absent"}

\* isAllowed && input.autoOpen, as JavaScript evaluates it.
JsAnd(a, b) ==
    IF ~a THEN "false"
    ELSE IF b = "absent" THEN "undefined"
    ELSE b

\* A boolean column with default(false).notNull(): an undefined value takes the default.
BooleanColumn(v) == v = "true"

\* Variant: the row is inserted twice.
CreatePassageTwice(tbl, passage) ==
    LET row == [ licensePlate  |-> passage.licensePlate,
                 isAllowed     |-> passage.isAllowed = "true",
                 wasManualOpen |-> passage.wasManualOpen = "true",
                 barrierOpened |-> passage.barrierOpened = "true",
                 notes         |-> passage.notes,
                 req           |-> passage.req ]
    IN Append(Append(tbl, row), row)

\* db.createPassage
CreatePassage(tbl, passage) ==
    Append(tbl,
      [ licensePlate  |-> NormalizePlate(passage.licensePlate),
        isAllowed     |-> BooleanColumn(passage.isAllowed),
        wasManualOpen |-> BooleanColumn(passage.wasManualOpen),
        barrierOpened |-> BooleanColumn(passage.barrierOpened),
        notes         |-> passage.notes,
        req           |-> passage.req ])

\* db.logBarrierAction
LogBarrierAction(tbl, action) == Append(tbl, action)

----------------------------------------------------------------------------
(* Notification services *)

OwnerOutcomes == {"ok", "fail", "throw"}   \* notifyOwner: true, false, exception
NetOutcomes == {"ok", "fail"}               \* Telegram Bot API: delivered or not

\* telegramNotification.sendTelegramMessage
SendTelegramMessage(s, net) ==
    IF s.telegram_enabled = "false" THEN [attempted |-> FALSE, result |-> FALSE]
    ELSE IF ~s.telegram_configured THEN [attempted |-> FALSE, result |-> FALSE]
    ELSE [attempted |-> TRUE, result |-> net = "ok"]

Delivery(owner, tg, net) ==
    [ owner    |-> owner,
      telegram |-> IF tg.attempted THEN net ELSE "skipped",
      result   |-> (owner = "ok") \/ tg.result ]

NotDelivered(owner) == [owner |-> owner, telegram |-> "skipped", result |-> FALSE]

\* The try block shared by the three notify functions: notifyOwner, then Telegram.
OwnerThenTelegram(s, owner, net) ==
    IF owner = "throw" THEN NotDelivered("throw")
    ELSE Delivery(owner, SendTelegramMessage(s, net), net)

\* emailNotification.notifyUnknownVehicle
NotifyUnknownVehicle(s, owner, net) ==
    IF s.notifications_enabled = "false" THEN NotDelivered("skipped")
    ELSE OwnerThenTelegram(s, owner, net)

\* emailNotification.notifyManualBarrierOpen
NotifyManualBarrierOpen(s, owner, net) ==
    IF s.notifications_enabled = "false" THEN NotDelivered("skipped")
    ELSE OwnerThenTelegram(s, owner, net)

\* blacklistNotification.notifyBlacklistDetection
NotifyBlacklistDetection(s, owner, net) == OwnerThenTelegram(s, owner, net)

LogNotification(log, type, req, d) ==
    Append(log, [type |-> type, req |-> req, owner |-> d.owner,
                 telegram |-> d.telegram, result |-> d.result])

----------------------------------------------------------------------------
(* Requests: recognition.analyze and barrier.open *)

NoResult ==
    [ isAllowed |-> FALSE, isBlacklisted |-> FALSE, barrierOpened |-> "false",
      passageId |-> 0, success |-> FALSE ]

IdleCall ==
    [ op        |-> "none",
      pc        |-> "idle",
      req       |-> 0,
      autoOpen  |-> "absent",    \* input.autoOpen
      confirm   |-> FALSE,       \* input.confirm
      plate     |-> NoPlate,     \* result.plate
      entry     |-> NoEntry,     \* blacklistEntry
      vehicle   |-> NoVehicle,   \* vehicle
      isAllowed |-> FALSE,
      passageId |-> 0,           \* passage.id
      lookups   |-> {},          \* tables this call has read
      result    |-> NoResult,    \* value returned to the caller
      error     |-> "none" ]     \* error thrown to the caller

InternalError == "INTERNAL_SERVER_ERROR: Failed to recognize license plate"
ConfirmationRequired == "BAD_REQUEST: Confirmation required"
DatabaseError == "Database not available"

Throw(p, err) ==
    calls' = [calls EXCEPT ![p].pc = "failed", ![p].error = err]

\* The mutation is entered: input {imageBase64, autoOpen} was validated.
AnalyzeStart(p, autoOpens) ==
    /\ calls[p].pc = "idle"
    /\ \E ao \in autoOpens :
         calls' = [calls EXCEPT ![p] =
                     [IdleCall EXCEPT !.op = "analyze", !.pc = "recognize",
                                      !.req = nextReq + 1, !.autoOpen = ao]]
    /\ nextReq' = nextReq + 1
    /\ UNCHANGED <<blacklist, vehicles, passages, barrierActions, notifLog,
                   settings, pendingNotifications, now, qh, drain, hw,
                   admin, tgCall, runs>>

\* invokeLLM, JSON.parse and storagePut: any of them may throw, which the catch
\* turns into INTERNAL_SERVER_ERROR; otherwise the classifier's plate is known.
AnalyzeRecognize(p, seen) ==
    /\ calls[p].op = "analyze" /\ calls[p].pc = "recognize"
    /\ \/ Throw(p, InternalError)
       \/ \E plate \in seen :
            calls' = [calls EXCEPT ![p].pc = "blacklist", ![p].plate = plate]
    /\ UNCHANGED <<blacklist, vehicles, passages, barrierActions, notifLog,
                   settings, nextReq, pendingNotifications, now, qh, drain, hw,
                   admin, tgCall, runs>>

\* Variant: the blacklist is never consulted.
BlacklistLookupSkipped(plate, tbl) == NoEntry

\* blacklistEntry: null, or what isPlateBlacklisted returns for a plate.
BlacklistLookup(plate, tbl) ==
    IF Truthy(plate) THEN IsPlateBlacklisted(tbl, plate.text) ELSE NoEntry

\* if (result.plate) blacklistEntry = await isPlateBlacklisted(result.plate)
AnalyzeBlacklistCheck(p) ==
    /\ calls[p].op = "analyze" /\ calls[p].pc = "blacklist"
    /\ LET c == calls[p]
           e == BlacklistLookup(c.plate, blacklist)
       IN calls' = [calls EXCEPT ![p].entry = e,
                      ![p].lookups = IF Truthy(c.plate) THEN @ \cup {"blacklist"} ELSE @,
                      ![p].pc = IF e.found THEN "increment" ELSE "allowlist"]
    /\ UNCHANGED <<blacklist, vehicles, passages, barrierActions, notifLog,
                   settings, nextReq, pendingNotifications, now, qh, drain, hw,
                   admin, tgCall, runs>>

\* Variant: read-then-write, the new value computed from the row as it was looked up.
CountAttemptReadThenWrite(tbl, entry) ==
    [tbl EXCEPT ![entry.id].attemptCount = entry.attemptCount + 1]

\* The table after the blocked branch has counted the attempt.
CountAttempt(tbl, entry) == IncrementBlacklistAttempt(tbl, entry.id)

\* await incrementBlacklistAttempt(blacklistEntry.id)
AnalyzeIncrement(p) ==
    /\ calls[p].op = "analyze" /\ calls[p].pc = "increment"
    /\ blacklist' = CountAttempt(blacklist, calls[p].entry)
    /\ calls' = [calls EXCEPT ![p].pc = "blockedPassage"]
    /\ UNCHANGED <<vehicles, passages, barrierActions, notifLog,
                   settings, nextReq, pendingNotifications, now, qh, drain, hw,
                   admin, tgCall, runs>>

LicensePlateOf(plate) == IF Truthy(plate) THEN plate.text ELSE UNKNOWN

BlockedPassage(c) ==
    [ licensePlate  |-> LicensePlateOf(c.plate),
      isAllowed     |-> "false",
      wasManualOpen |-> "false",
      barrierOpened |-> "false",
      notes         |-> <<"BLACKLISTED:", "reason">>,
      req           |-> c.req ]

\* createPassage of the blocked branch; a throw reaches the catch.
AnalyzeBlockedPassage(p) ==
    /\ calls[p].op = "analyze" /\ calls[p].pc = "blockedPassage"
    /\ \/ /\ Throw(p, InternalError)
          /\ UNCHANGED passages
       \/ /\ passages' = CreatePassage(passages, BlockedPassage(calls[p]))
          /\ calls' = [calls EXCEPT ![p].pc = "blockedNotify",
                                    ![p].passageId = Len(passages) + 1]
    /\ UNCHANGED <<blacklist, vehicles, barrierActions, notifLog,
                   settings, nextReq, pendingNotifications, now, qh, drain, hw,
                   admin, tgCall, runs>>

BlockedResult(c) ==
    [ isAllowed |-> FALSE, isBlacklisted |-> TRUE, barrierOpened |-> "false",
      passageId |-> c.passageId, success |-> TRUE ]

\* Variant: the notifyOnDetection flag is ignored.
AlwaysNotifyBlacklist(entry) == TRUE

\* if (blacklistEntry.notifyOnDetection)
ShouldNotifyBlacklist(entry) == entry.notifyOnDetection

\* if (blacklistEntry.notifyOnDetection) await notifyBlacklistDetection(...); return
AnalyzeBlockedNotify(p) ==
    /\ calls[p].op = "analyze" /\ calls[p].pc = "blockedNotify"
    /\ IF ShouldNotifyBlacklist(calls[p].entry)
       THEN \E owner \in OwnerOutcomes, net \in NetOutcomes :
              notifLog' = LogNotification(notifLog, "blacklist_detected", calls[p].req,
                                          NotifyBlacklistDetection(settings, owner, net))
       ELSE UNCHANGED notifLog
    /\ calls' = [calls EXCEPT ![p].pc = "done", ![p].result = BlockedResult(calls[p])]
    /\ UNCHANGED <<blacklist, vehicles, passages, barrierActions,
                   settings, nextReq, pendingNotifications, now, qh, drain, hw,
                   admin, tgCall, runs>>

\* Variant: the isActive flag of the vehicle is not looked at.
AllowedWhenFound(vehicle) == vehicle.found

\* isAllowed = vehicle !== null && vehicle.isActive
IsAllowed(vehicle) == vehicle.found /\ vehicle.isActive

\* if (result.plate) vehicle = await getVehicleByPlate(result.plate)
AnalyzeAllowlistCheck(p) ==
    /\ calls[p].op = "analyze" /\ calls[p].pc = "allowlist"
    /\ LET c == calls[p]
           v == IF Truthy(c.plate) THEN GetVehicleByPlate(vehicles, c.plate.text)
                ELSE NoVehicle
       IN calls' = [calls EXCEPT ![p].vehicle = v,
                      ![p].isAllowed = IF Truthy(c.plate) THEN IsAllowed(v) ELSE FALSE,
                      ![p].lookups = IF Truthy(c.plate) THEN @ \cup {"allowlist"} ELSE @,
                      ![p].pc = "passage"]
    /\ UNCHANGED <<blacklist, vehicles, passages, barrierActions, notifLog,
                   settings, nextReq, pendingNotifications, now, qh, drain, hw,
                   admin, tgCall, runs>>

\* barrierOpened: isAllowed && input.autoOpen
BarrierOpened(isAllowed, autoOpen) == JsAnd(isAllowed, autoOpen)

DecidedPassage(c) ==
    [ licensePlate  |-> LicensePlateOf(c.plate),
      isAllowed     |-> IF c.isAllowed THEN "true" ELSE "false",
      wasManualOpen |-> "false",
      barrierOpened |-> BarrierOpened(c.isAllowed, c.autoOpen),
      notes         |-> <<>>,
      req           |-> c.req ]

\* createPassage of the allow/unknown branch; a throw reaches the catch.
AnalyzePassage(p) ==
    /\ calls[p].op = "analyze" /\ calls[p].pc = "passage"
    /\ \/ /\ Throw(p, InternalError)
          /\ UNCHANGED passages
       \/ /\ passages' = CreatePassage(passages, DecidedPassage(calls[p]))
          /\ calls' = [calls EXCEPT ![p].pc = "barrier",
                                    ![p].passageId = Len(passages) + 1]
    /\ UNCHANGED <<blacklist, vehicles, barrierActions, notifLog,
                   settings, nextReq, pendingNotifications, now, qh, drain, hw,
                   admin, tgCall, runs>>

\* Variant: an absent autoOpen counts as true.
AutoOpenUnlessFalse(isAllowed, autoOpen) == isAllowed /\ autoOpen # "false"

\* if (isAllowed && input.autoOpen)
ShouldAutoOpen(isAllowed, autoOpen) == JsAnd(isAllowed, autoOpen) = "true"

AutoOpenAction(c) ==
    [ action |-> "open", triggeredBy |-> "auto", passageId |-> c.passageId,
      success |-> TRUE, req |-> c.req ]

\* if (isAllowed && input.autoOpen) await logBarrierAction(...): a throw reaches the catch.
AnalyzeBarrier(p) ==
    /\ calls[p].op = "analyze" /\ calls[p].pc = "barrier"
    /\ IF ShouldAutoOpen(calls[p].isAllowed, calls[p].autoOpen)
       THEN \/ /\ Throw(p, InternalError)
               /\ UNCHANGED barrierActions
            \/ /\ barrierActions' = LogBarrierAction(barrierActions, AutoOpenAction(calls[p]))
               /\ calls' = [calls EXCEPT ![p].pc = "notify"]
       ELSE /\ calls' = [calls EXCEPT ![p].pc = "notify"]
            /\ UNCHANGED barrierActions
    /\ UNCHANGED <<blacklist, vehicles, passages, notifLog,
                   settings, nextReq, pendingNotifications, now, qh, drain, hw,
                   admin, tgCall, runs>>

\* Variant: every denied call is reported, with or without a plate.
NotifyWheneverDenied(isAllowed, plate) == ~isAllowed

\* if (!isAllowed && result.plate)
ShouldNotifyUnknown(isAllowed, plate) == ~isAllowed /\ Truthy(plate)

DecidedResult(c) ==
    [ isAllowed |-> c.isAllowed, isBlacklisted |-> FALSE,
      barrierOpened |-> BarrierOpened(c.isAllowed, c.autoOpen),
      passageId |-> c.passageId, success |-> TRUE ]

\* if (!isAllowed && result.plate) await notifyUnknownVehicle(...); return
AnalyzeNotify(p) ==
    /\ calls[p].op = "analyze" /\ calls[p].pc = "notify"
    /\ IF ShouldNotifyUnknown(calls[p].isAllowed, calls[p].plate)
       THEN \E owner \in OwnerOutcomes, net \in NetOutcomes :
              notifLog' = LogNotification(notifLog, "unknown_vehicle", calls[p].req,
                                          NotifyUnknownVehicle(settings, owner, net))
       ELSE UNCHANGED notifLog
    /\ calls' = [calls EXCEPT ![p].pc = "done", ![p].result = DecidedResult(calls[p])]
    /\ UNCHANGED <<blacklist, vehicles, passages, barrierActions,
                   settings, nextReq, pendingNotifications, now, qh, drain, hw,
                   admin, tgCall, runs>>

\* Variant: the confirmation flag is not looked at.
ConfirmationNeverMissing(confirm) == FALSE

\* if (!input.confirm)
ConfirmationMissing(confirm) == ~confirm

\* if (!input.confirm) throw BAD_REQUEST
BarrierOpenStart(p) ==
    /\ calls[p].pc = "idle"
    /\ \E confirm \in BOOLEAN :
         calls' = [calls EXCEPT ![p] =
                     [IdleCall EXCEPT !.op = "open", !.req = nextReq + 1,
                        !.confirm = confirm,
                        !.pc = IF ConfirmationMissing(confirm) THEN "failed" ELSE "openLog",
                        !.error = IF ConfirmationMissing(confirm)
                                  THEN ConfirmationRequired ELSE "none"]]
    /\ nextReq' = nextReq + 1
    /\ UNCHANGED <<blacklist, vehicles, passages, barrierActions, notifLog,
                   settings, pendingNotifications, now, qh, drain, hw,
                   admin, tgCall, runs>>

ManualOpenAction(c) ==
    [ action |-> "open", triggeredBy |-> "manual", passageId |-> 0,
      success |-> TRUE, req |-> c.req ]

\* await logBarrierAction(...): nothing catches a throw.
BarrierOpenLog(p) ==
    /\ calls[p].op = "open" /\ calls[p].pc = "openLog"
    /\ \/ /\ Throw(p, DatabaseError)
          /\ UNCHANGED barrierActions
       \/ /\ barrierActions' = LogBarrierAction(barrierActions, ManualOpenAction(calls[p]))
          /\ calls' = [calls EXCEPT ![p].pc = "openNotify"]
    /\ UNCHANGED <<blacklist, vehicles, passages, notifLog,
                   settings, nextReq, pendingNotifications, now, qh, drain, hw,
                   admin, tgCall, runs>>

\* await notifyManualBarrierOpen(...); return { success: true }
BarrierOpenNotify(p) ==
    /\ calls[p].op = "open" /\ calls[p].pc = "openNotify"
    /\ \E owner \in OwnerOutcomes, net \in NetOutcomes :
         notifLog' = LogNotification(notifLog, "manual_open", calls[p].req,
                                     NotifyManualBarrierOpen(settings, owner, net))
    /\ calls' = [calls EXCEPT ![p].pc = "done",
                              ![p].result = [NoResult EXCEPT !.success = TRUE]]
    /\ UNCHANGED <<blacklist, vehicles, passages, barrierActions,
                   settings, nextReq, pendingNotifications, now, qh, drain, hw,
                   admin, tgCall, runs>>

\* The response (result or error) has been delivered; the handler is free again.
Respond(p) ==
    /\ calls[p].pc \in {"done", "failed"}
    /\ calls' = [calls EXCEPT ![p] = IdleCall]
    /\ UNCHANGED <<blacklist, vehicles, passages, barrierActions, notifLog,
                   settings, nextReq, pendingNotifications, now, qh, drain, hw,
                   admin, tgCall, runs>>

----------------------------------------------------------------------------
(* Settings *)

NoTime == <<>>

DefaultSettings ==
    [ notifications_enabled    |-> Unset,
      telegram_enabled         |-> Unset,
      telegram_configured      |-> FALSE,   \* telegram_bot_token and telegram_chat_id set
      quietHoursEnabled        |-> Unset,
      quietHoursStart          |-> NoTime,
      quietHoursEnd            |-> NoTime,
      quietHoursBypassCritical |-> Unset ]

\* Settings the decision pipeline is run under.
PipelineSettings ==
    { [DefaultSettings EXCEPT !.notifications_enabled = n,
                              !.telegram_enabled = t[1], !.telegram_configured = t[2]] :
        n \in {Unset, "false"}, t \in {<<Unset, FALSE>>, <<"true", TRUE>>} }

----------------------------------------------------------------------------
(* Quiet hours service *)

MinutesPerHour == 60

\* "HH:MM".split(":").map(Number), then hours * 60 + minutes
TimeMinutes(t) == t[1] * MinutesPerHour + t[2]

\* Variant: the window is never taken to wrap past midnight.
QuietHoursSameDayOnly(s, t) ==
    /\ s.quietHoursEnabled = "true"
    /\ s.quietHoursStart # NoTime /\ s.quietHoursEnd # NoTime
    /\ TimeMinutes(t) >= TimeMinutes(s.quietHoursStart)
    /\ TimeMinutes(t) < TimeMinutes(s.quietHoursEnd)

\* quietHours.isQuietHoursActive, with new Date() read as t
IsQuietHoursActive(s, t) ==
    IF s.quietHoursEnabled # "true" THEN FALSE
    ELSE IF s.quietHoursStart = NoTime \/ s.quietHoursEnd = NoTime THEN FALSE
    ELSE LET cur == TimeMinutes(t)
             start == TimeMinutes(s.quietHoursStart)
             end == TimeMinutes(s.quietHoursEnd)
         IN IF start > end
            THEN cur >= start \/ cur < end
            ELSE cur >= start /\ cur < end

\* Variant: only critical events bypass quiet hours.
BypassCriticalOnly(s, severity) ==
    s.quietHoursBypassCritical = "true" /\ severity = "critical"

\* quietHours.shouldBypassQuietHours
ShouldBypassQuietHours(s, severity) ==
    IF s.quietHoursBypassCritical = "true"
    THEN severity = "critical" \/ severity = "high"
    ELSE FALSE

\* data.severity || "medium"
SeverityOf(data) == IF data.severity = Unset THEN "medium" ELSE data.severity

\* if (!isQuietHours || shouldBypass)
SendsImmediately(isQuietHours, shouldBypass) == ~isQuietHours \/ shouldBypass

\* Variant: both channels in one try block.
SendInOneTryBlock(s, owner, net) ==
    IF owner = "throw" THEN NotDelivered("throw")
    ELSE Delivery(owner,
                  IF s.telegram_enabled = "true" THEN SendTelegramMessage(s, net)
                  ELSE [attempted |-> FALSE, result |-> FALSE],
                  net)

\* quietHours.sendNotificationImmediately: each channel in a try block of its own.
SendNotificationImmediately(s, owner, net) ==
    LET tg == IF s.telegram_enabled = "true" THEN SendTelegramMessage(s, net)
              ELSE [attempted |-> FALSE, result |-> FALSE]
    IN Delivery(owner, tg, net)

\* db.createPendingNotification
CreatePendingNotification(tbl, data, severity) ==
    Append(tbl, [type |-> data.type, severity |-> severity, isSent |-> FALSE])

NotificationTypes == {"blacklist_detected"}

NotificationInputs ==
    [ type : NotificationTypes, severity : {Unset, "low", "high", "critical"} ]

\* No integration is configured and no call was made.
NoHw ==
    [ barriers |-> <<>>, cameras |-> <<>>, count |-> 0,
      last |-> [ op |-> "none", id |-> 0, transport |-> "ok",
                 response |-> [success |-> FALSE, error |-> "none", contacted |-> FALSE,
                              threw |-> FALSE],
                 before |-> <<>> ] ]

\* No administration call was made.
NoAdmin ==
    [ count |-> 0, op |-> "none",
      args |-> [none |-> TRUE],     \* input of the last call
      reply |-> [none |-> TRUE],    \* what the caller got: a result or an error
      blacklistBefore |-> <<>>,     \* the tables as the last call found them
      vehiclesBefore |-> <<>>,
      exported |-> <<>>,            \* the table when blacklist.export last ran,
      exportedCount |-> 0,          \* the count
      deleted |-> {},               \* vehicles that vehicles.delete has deactivated
      reactivated |-> {},           \* and those vehicles.update has activated since
      csv |-> <<>> ]                \* and the csv it returned

\* sendTelegramMessage was not called.
NoTg ==
    [ count |-> 0, transport |-> "ok",
      fetched |-> FALSE,            \* a request went to the Bot API
      result |-> FALSE, threw |-> FALSE ]

\* No sendPendingSummary invocation is under way.
NoRuns == <<>>

\* No sendPendingSummary has run.
NoDrain ==
    [ count |-> 0, pc |-> "idle",
      pending |-> {},          \* ids of the rows read by getPendingNotifications
      lenAtRead |-> 0,         \* rows in the table when they were read
      sentBefore |-> {},       \* ids already marked sent at that time
      logBefore |-> 0,
      owner |-> "skipped", telegram |-> "skipped",
      sent |-> 0, failed |-> 0,
      result |-> [sent |-> 0, failed |-> 0],
      digests |-> <<>> ]       \* digests composed by finished runs

NoQh ==
    [ count |-> 0, data |-> [type |-> "blacklist_detected", severity |-> Unset],
      quiet |-> FALSE, bypassSetting |-> Unset,
      pendingBefore |-> 0, logBefore |-> 0,
      result |-> [queued |-> FALSE, sent |-> FALSE] ]

\* quietHours.queueOrSendNotification
QueueOrSendNotification ==
    /\ qh.count < MaxQueued
    /\ \E data \in NotificationInputs, owner \in OwnerOutcomes, net \in NetOutcomes :
         LET severity == SeverityOf(data)
             isQuietHours == IsQuietHoursActive(settings, now)
             shouldBypass == ShouldBypassQuietHours(settings, severity)
             d == SendNotificationImmediately(settings, owner, net)
             call == [ count |-> qh.count + 1, data |-> data,
                       quiet |-> isQuietHours,
                       bypassSetting |-> settings.quietHoursBypassCritical,
                       pendingBefore |-> Len(pendingNotifications),
                       logBefore |-> Len(notifLog),
                       result |-> [queued |-> FALSE, sent |-> FALSE] ]
         IN IF SendsImmediately(isQuietHours, shouldBypass)
            THEN /\ notifLog' = LogNotification(notifLog, data.type, 0, d)
                 /\ qh' = [call EXCEPT !.result = [queued |-> FALSE, sent |-> d.result]]
                 /\ UNCHANGED pendingNotifications
            ELSE /\ pendingNotifications' =
                      CreatePendingNotification(pendingNotifications, data, severity)
                 /\ qh' = [call EXCEPT !.result = [queued |-> TRUE, sent |-> FALSE]]
                 /\ UNCHANGED notifLog
    /\ UNCHANGED <<blacklist, vehicles, passages, barrierActions, settings,
                   calls, nextReq, now, drain, hw,
                   admin, tgCall, runs>>

\* The clock moves to another time of day.
Times == { <<12, 0>>, <<23, 30>>, <<3, 0>> }

Tick ==
    /\ \E t \in Times \ {now} : now' = t
    /\ UNCHANGED <<blacklist, vehicles, passages, barrierActions, notifLog, settings,
                   calls, nextReq, pendingNotifications, qh, drain, hw,
                   admin, tgCall, runs>>

\* settings.set -> db.upsertSetting
UpsertSetting(key, value) ==
    /\ settings[key] # value
    /\ settings' = [settings EXCEPT ![key] = value]
    /\ UNCHANGED <<blacklist, vehicles, passages, barrierActions, notifLog,
                   calls, nextReq, pendingNotifications, now, qh, drain, hw,
                   admin, tgCall, runs>>

----------------------------------------------------------------------------
(* The decision pipeline: requests handled one at a time *)

Init ==
    /\ blacklist = InitialBlacklist
    /\ vehicles = InitialVehicles
    /\ passages = <<>>
    /\ barrierActions = <<>>
    /\ notifLog = <<>>
    /\ settings \in PipelineSettings
    /\ calls = [p \in Procs |-> IdleCall]
    /\ nextReq = 0
    /\ pendingNotifications = <<>>
    /\ now = <<12, 0>>
    /\ qh = NoQh
    /\ drain = NoDrain
    /\ hw = NoHw
    /\ admin = NoAdmin
    /\ tgCall = NoTg
    /\ runs = NoRuns

Quiescent == \A q \in Procs : calls[q].pc = "idle"

Next ==
    \E p \in Procs :
        \/ Quiescent /\ nextReq < MaxCalls /\ AnalyzeStart(p, AutoOpenValues)
        \/ Quiescent /\ nextReq < MaxCalls /\ BarrierOpenStart(p)
        \/ AnalyzeRecognize(p, ClassifierPlates)
        \/ AnalyzeBlacklistCheck(p)
        \/ AnalyzeIncrement(p)
        \/ AnalyzeBlockedPassage(p)
        \/ AnalyzeBlockedNotify(p)
        \/ AnalyzeAllowlistCheck(p)
        \/ AnalyzePassage(p)
        \/ AnalyzeBarrier(p)
        \/ AnalyzeNotify(p)
        \/ BarrierOpenLog(p)
        \/ BarrierOpenNotify(p)
        \/ Respond(p)

Spec == Init /\ [][Next]_vars

----------------------------------------------------------------------------
(* The decision pipeline: every handler takes one request, and they overlap *)

\* The plates in front of the cameras while the requests overlap.
OverlapPlates == { PlateOf(<<"a", " ">>), PlateOf(<<"B">>) }

InitConcurrent ==
    /\ Init
    /\ settings = DefaultSettings

NextConcurrent ==
    \E p \in Procs :
        \/ nextReq < NumProcs /\ AnalyzeStart(p, {"true"})
        \/ AnalyzeRecognize(p, OverlapPlates)
        \/ AnalyzeBlacklistCheck(p)
        \/ AnalyzeIncrement(p)
        \/ AnalyzeBlockedPassage(p)
        \/ AnalyzeBlockedNotify(p)
        \/ AnalyzeAllowlistCheck(p)
        \/ AnalyzePassage(p)
        \/ AnalyzeBarrier(p)
        \/ AnalyzeNotify(p)

SpecConcurrent == InitConcurrent /\ [][NextConcurrent]_vars

----------------------------------------------------------------------------
(* The quiet hours service on its own *)

QuietHoursSettings ==
    { [DefaultSettings EXCEPT !.quietHoursStart = w[1], !.quietHoursEnd = w[2],
                              !.telegram_enabled = t[1], !.telegram_configured = t[2]] :
        w \in { <<<<22, 0>>, <<7, 0>>>>, <<NoTime, <<7, 0>>>> },
        t \in { <<Unset, FALSE>>, <<"true", TRUE>> } }

InitQuietHours ==
    /\ blacklist = InitialBlacklist
    /\ vehicles = InitialVehicles
    /\ passages = <<>>
    /\ barrierActions = <<>>
    /\ notifLog = <<>>
    /\ settings \in QuietHoursSettings
    /\ calls = [p \in Procs |-> IdleCall]
    /\ nextReq = 0
    /\ pendingNotifications = <<>>
    /\ now \in Times
    /\ qh = NoQh
    /\ drain = NoDrain
    /\ hw = NoHw
    /\ admin = NoAdmin
    /\ tgCall = NoTg
    /\ runs = NoRuns

NextQuietHours ==
    \/ QueueOrSendNotification
    \/ Tick
    \/ \E v \in {"true", "false"} : UpsertSetting("quietHoursEnabled", v)
    \/ \E v \in {"true", "false"} : UpsertSetting("quietHoursBypassCritical", v)

SpecQuietHours == InitQuietHours /\ [][NextQuietHours]_vars

----------------------------------------------------------------------------
(* Properties of the decision pipeline *)

PassagesOf(req) == { i \in DOMAIN passages : passages[i].req = req }
ActionsOf(req) == { i \in DOMAIN barrierActions : barrierActions[i].req = req }
NotificationsOf(req, type) ==
    { i \in DOMAIN notifLog : notifLog[i].req = req /\ notifLog[i].type = type }

\* The plate matches an active, non-expired blacklist entry.
OnBlacklist(plate) ==
    /\ ~plate.isNull
    /\ \E i \in DOMAIN blacklist :
         /\ blacklist[i].licensePlate = NormalizePlate(plate.text)
         /\ blacklist[i].isActive
         /\ ~blacklist[i].expired

\* The plate matches an active vehicle of the allowlist.
OnAllowlist(plate) ==
    /\ ~plate.isNull
    /\ \E i \in DOMAIN vehicles :
         /\ vehicles[i].licensePlate = NormalizePlate(plate.text)
         /\ vehicles[i].isActive

OutcomeAllowed(plate) == ~OnBlacklist(plate) /\ OnAllowlist(plate)
OutcomeUnknown(plate) == ~OnBlacklist(plate) /\ ~OnAllowlist(plate)

Analyzing(p) == calls[p].op = "analyze"
Returned(p) == calls[p].pc = "done"
Finished(p) == calls[p].pc \in {"done", "failed"}

\* C1: an analyze call whose recognized plate matches an active, non-expired
\* blacklist entry never consults the allowlist, never takes the allow branch,
\* logs no barrier action, writes no Passage that is allowed or opened, and when
\* it returns its result is Blocked: isBlacklisted=true, isAllowed=false,
\* barrierOpened=false; also when the plate is an active vehicle.
C1_BlacklistPrecedence ==
    \A p \in Procs :
      (Analyzing(p) /\ OnBlacklist(calls[p].plate)) =>
        LET c == calls[p] IN
        /\ "allowlist" \notin c.lookups
        /\ c.pc \notin {"allowlist", "passage", "barrier", "notify"}
        /\ ActionsOf(c.req) = {}
        /\ \A i \in PassagesOf(c.req) :
             ~passages[i].isAllowed /\ ~passages[i].barrierOpened
        /\ Returned(p) =>
             /\ c.result.isBlacklisted
             /\ ~c.result.isAllowed
             /\ c.result.barrierOpened = "false"

C1_BlockedThoughAllowlisted ==
    \E p \in Procs :
      /\ Analyzing(p) /\ Returned(p)
      /\ OnBlacklist(calls[p].plate) /\ OnAllowlist(calls[p].plate)
      /\ calls[p].result.isBlacklisted
      /\ PassagesOf(calls[p].req) # {}

\* The call has run incrementBlacklistAttempt for entry i.
CountedAttempt(p, i) ==
    /\ calls[p].entry.found /\ calls[p].entry.id = i
    /\ calls[p].pc \in {"blockedPassage", "blockedNotify", "done", "failed"}

C4_OpenOnlyAllowedAutoOpen ==
    \A p \in Procs :
      Analyzing(p) =>
        LET c == calls[p]
            allowedAuto == OutcomeAllowed(c.plate) /\ c.autoOpen = "true"
        IN /\ ActionsOf(c.req) # {} => allowedAuto
           /\ ~allowedAuto =>
                \A i \in PassagesOf(c.req) : ~passages[i].barrierOpened

C4_AllowedAutoOpenAbsent ==
    \E p \in Procs :
      /\ Analyzing(p) /\ Returned(p)
      /\ OutcomeAllowed(calls[p].plate) /\ calls[p].autoOpen = "absent"
      /\ ActionsOf(calls[p].req) = {}
      /\ \E i \in PassagesOf(calls[p].req) :
           passages[i].isAllowed /\ ~passages[i].barrierOpened

\* C5 as stated: when the outcome is Allowed with autoOpen=true and the barrier
\* open action has failed (the call finished without a logged action), the call
\* has returned a result and its Passage records barrierOpened=false.
C5_FailedOpenStillReturns ==
    \A p \in Procs :
      ( /\ Analyzing(p) /\ Finished(p)
        /\ OutcomeAllowed(calls[p].plate) /\ calls[p].autoOpen = "true"
        /\ PassagesOf(calls[p].req) # {}
        /\ ActionsOf(calls[p].req) = {} ) =>
        /\ Returned(p)
        /\ \A i \in PassagesOf(calls[p].req) : ~passages[i].barrierOpened

\* C6: a Blocked recognition handled on its own, once it has returned, has
\* raised the entry's attempt counter by exactly 1 over the value it looked up,
\* has written one Passage with isAllowed=false, barrierOpened=false and a note
\* beginning "BLACKLISTED:", has logged no barrier action, and has called the
\* blacklist-detected notification (once) if and only if the entry's
\* notifyOnDetection flag is set.
C6_BlockedSideEffects ==
    \A p \in Procs :
      (Analyzing(p) /\ Returned(p) /\ calls[p].result.isBlacklisted) =>
        LET c == calls[p]
            sent == NotificationsOf(c.req, "blacklist_detected")
        IN /\ c.entry.found
           /\ blacklist[c.entry.id].attemptCount = c.entry.attemptCount + 1
           /\ Cardinality(PassagesOf(c.req)) = 1
           /\ \A i \in PassagesOf(c.req) :
                /\ ~passages[i].isAllowed
                /\ ~passages[i].barrierOpened
                /\ passages[i].notes # <<>>
                /\ Head(passages[i].notes) = "BLACKLISTED:"
           /\ ActionsOf(c.req) = {}
           /\ Cardinality(sent) = IF blacklist[c.entry.id].notifyOnDetection THEN 1 ELSE 0

C6_BlockedWithoutNotification ==
    \E p \in Procs :
      /\ Analyzing(p) /\ Returned(p) /\ calls[p].result.isBlacklisted
      /\ ~blacklist[calls[p].entry.id].notifyOnDetection
      /\ blacklist[calls[p].entry.id].attemptCount = 1
      /\ NotificationsOf(calls[p].req, "blacklist_detected") = {}

\* C7 as stated: a returned analyze call has called the unknown-vehicle
\* notification exactly when the recognized plate is non-null and the outcome is
\* neither Blocked nor Allowed.
C7_UnknownEventForNonNullPlate ==
    \A p \in Procs :
      (Analyzing(p) /\ Returned(p)) =>
        ( NotificationsOf(calls[p].req, "unknown_vehicle") # {}
            <=> (~calls[p].plate.isNull /\ OutcomeUnknown(calls[p].plate)) )

\* C7: an analyze call that returns has called the unknown-vehicle notification
\* (once) exactly when the recognized plate is non-null and non-empty and the
\* outcome is neither Blocked nor Allowed; no call does so in any other case; for
\* a null or empty plate no blacklist or allowlist lookup is made and no event
\* is emitted.
C7_UnknownEventForPresentPlate ==
    \A p \in Procs :
      Analyzing(p) =>
        LET c == calls[p]
            sent == NotificationsOf(c.req, "unknown_vehicle")
            unknown == Truthy(c.plate) /\ OutcomeUnknown(c.plate)
        IN /\ Returned(p) => Cardinality(sent) = IF unknown THEN 1 ELSE 0
           /\ sent # {} => unknown
           /\ ~Truthy(c.plate) => c.lookups = {} /\ sent = {}

C7_EmptyPlateNoEvent ==
    \E p \in Procs :
      /\ Analyzing(p) /\ Returned(p)
      /\ calls[p].plate = PlateOf(<<>>)
      /\ calls[p].lookups = {}
      /\ NotificationsOf(calls[p].req, "unknown_vehicle") = {}

\* C8 as stated: every barrier.open call with confirm=true that has returned has
\* written a Passage with wasManualOpen=true, has logged the barrier action and
\* has called the manual-open notification.
C8_ManualOpenWritesPassage ==
    \A p \in Procs :
      (calls[p].op = "open" /\ calls[p].confirm /\ Returned(p)) =>
        /\ \E i \in PassagesOf(calls[p].req) : passages[i].wasManualOpen
        /\ ActionsOf(calls[p].req) # {}
        /\ NotificationsOf(calls[p].req, "manual_open") # {}

\* C9: a barrier.open call with confirm=false is rejected with the error
\* "Confirmation required" and has no side effect: no barrier action is logged,
\* no Passage is written and no notification function is called.
C9_UnconfirmedOpenRejected ==
    \A p \in Procs :
      (calls[p].op = "open" /\ ~calls[p].confirm) =>
        /\ calls[p].pc = "failed"
        /\ calls[p].error = ConfirmationRequired
        /\ ActionsOf(calls[p].req) = {}
        /\ PassagesOf(calls[p].req) = {}
        /\ \A i \in DOMAIN notifLog : notifLog[i].req # calls[p].req

\* A rejected call, after an earlier call has left its records.
C9_RejectedAfterEarlierCall ==
    \E p \in Procs :
      /\ calls[p].op = "open" /\ ~calls[p].confirm /\ calls[p].pc = "failed"
      /\ calls[p].req > 1
      /\ Len(barrierActions) + Len(passages) > 0

\* C10: the last queueOrSendNotification call delivered immediately (invoked the
\* channels) if and only if quiet hours were inactive, or the event's severity
\* (medium when unspecified) was high or critical and the bypass flag was
\* enabled; when it delivered it created no pending record and returned
\* queued=false; otherwise it created exactly one pending record, invoked no
\* channel and returned {queued: true, sent: false}.
C10_QueueOrSend ==
    qh.count > 0 =>
      LET severity == IF qh.data.severity = Unset THEN "medium" ELSE qh.data.severity
          mustDeliver == \/ ~qh.quiet
                         \/ /\ severity \in {"high", "critical"}
                            /\ qh.bypassSetting = "true"
          delivered == Len(notifLog) = qh.logBefore + 1
      IN /\ delivered <=> mustDeliver
         /\ delivered =>
              /\ Len(pendingNotifications) = qh.pendingBefore
              /\ qh.result.queued = FALSE
              /\ qh.result.sent = notifLog[Len(notifLog)].result
         /\ ~delivered =>
              /\ Len(notifLog) = qh.logBefore
              /\ Len(pendingNotifications) = qh.pendingBefore + 1
              /\ pendingNotifications[Len(pendingNotifications)] =
                   [type |-> qh.data.type, severity |-> severity, isSent |-> FALSE]
              /\ qh.result = [queued |-> TRUE, sent |-> FALSE]

\* A high-severity event bypasses quiet hours after an earlier event was queued.
C10_HighBypassesQuietHours ==
    /\ qh.count > 1
    /\ qh.quiet /\ qh.data.severity = "high" /\ qh.bypassSetting = "true"
    /\ qh.pendingBefore > 0
    /\ Len(pendingNotifications) = qh.pendingBefore
    /\ qh.result.queued = FALSE

----------------------------------------------------------------------------
(* The decision pipeline while quiet hours are active *)

NightSettings ==
    { [DefaultSettings EXCEPT !.quietHoursEnabled = "true",
                              !.quietHoursStart = <<22, 0>>,
                              !.quietHoursEnd = <<7, 0>>,
                              !.quietHoursBypassCritical = b] :
        b \in {"true", "false"} }

InitNight ==
    /\ blacklist = InitialBlacklist
    /\ vehicles = InitialVehicles
    /\ passages = <<>>
    /\ barrierActions = <<>>
    /\ notifLog = <<>>
    /\ settings \in NightSettings
    /\ calls = [p \in Procs |-> IdleCall]
    /\ nextReq = 0
    /\ pendingNotifications = <<>>
    /\ now = <<23, 30>>
    /\ qh = NoQh
    /\ drain = NoDrain
    /\ hw = NoHw
    /\ admin = NoAdmin
    /\ tgCall = NoTg
    /\ runs = NoRuns

SpecNight == InitNight /\ [][Next]_vars

\* The notification service was entered and invoked at least one channel.
ChannelInvoked(n) == n.owner # "skipped" \/ n.telegram # "skipped"

\* C11 as stated: while quiet hours are active, an unknown-vehicle or
\* manual-open notification of the pipeline, and a blacklist-detected one of
\* low or medium severity or with bypass disabled, invokes no channel and is
\* held as a pending record.
C11_PipelineEventsQueued ==
    IsQuietHoursActive(settings, now) =>
      /\ \A i \in DOMAIN notifLog :
           notifLog[i].type \in {"unknown_vehicle", "manual_open"} =>
             /\ ~ChannelInvoked(notifLog[i])
             /\ pendingNotifications # <<>>
      /\ \A p \in Procs :
           ( /\ Analyzing(p) /\ Returned(p) /\ calls[p].entry.found
             /\ \/ calls[p].entry.severity \in {"low", "medium"}
                \/ settings.quietHoursBypassCritical # "true" ) =>
             \A i \in NotificationsOf(calls[p].req, "blacklist_detected") :
               /\ ~ChannelInvoked(notifLog[i])
               /\ pendingNotifications # <<>>

----------------------------------------------------------------------------
(* isQuietHoursActive on its own *)

ClockTimes ==
    { <<0, 0>>, <<1, 0>>, <<3, 0>>, <<5, 59>>, <<6, 0>>, <<6, 59>>, <<7, 0>>,
      <<12, 0>>, <<21, 59>>, <<22, 0>>, <<23, 30>>, <<23, 59>> }

WindowTimes == { NoTime, <<22, 0>>, <<7, 0>>, <<1, 0>>, <<6, 0>> }

ClockSettings ==
    { [DefaultSettings EXCEPT !.quietHoursEnabled = e,
                              !.quietHoursStart = st,
                              !.quietHoursEnd = en] :
        e \in {Unset, "true", "false"}, st \in WindowTimes, en \in WindowTimes }

InitClock ==
    /\ blacklist = InitialBlacklist
    /\ vehicles = InitialVehicles
    /\ passages = <<>>
    /\ barrierActions = <<>>
    /\ notifLog = <<>>
    /\ settings \in ClockSettings
    /\ calls = [p \in Procs |-> IdleCall]
    /\ nextReq = 0
    /\ pendingNotifications = <<>>
    /\ now \in ClockTimes
    /\ qh = NoQh
    /\ drain = NoDrain
    /\ hw = NoHw
    /\ admin = NoAdmin
    /\ tgCall = NoTg
    /\ runs = NoRuns

\* const isQuietHours = await isQuietHoursActive()
CheckQuietHours ==
    /\ qh.count = 0
    /\ qh' = [NoQh EXCEPT !.count = 1, !.quiet = IsQuietHoursActive(settings, now)]
    /\ UNCHANGED <<blacklist, vehicles, passages, barrierActions, notifLog, settings,
                   calls, nextReq, pendingNotifications, now, drain, hw,
                   admin, tgCall, runs>>

NextClock == CheckQuietHours

SpecClock == InitClock /\ [][NextClock]_vars

Minutes(t) == t[1] * 60 + t[2]

\* C12: with quiet hours enabled and start and end configured,
\* isQuietHoursActive at time of day t is true exactly when start <= t < end if
\* start <= end, and exactly when t >= start or t < end if start > end; it is
\* false when quiet hours are disabled or start or end is unset. With the
\* window 22:00-07:00 it is true at 23:30 and 03:00, false at 12:00 and 07:00.
C12_QuietHoursWindow ==
    qh.count > 0 =>
      LET st == settings.quietHoursStart
          en == settings.quietHoursEnd
          configured == settings.quietHoursEnabled = "true" /\ st # NoTime /\ en # NoTime
      IN /\ ~configured => ~qh.quiet
         /\ (configured /\ Minutes(st) <= Minutes(en)) =>
              (qh.quiet <=> (Minutes(st) <= Minutes(now) /\ Minutes(now) < Minutes(en)))
         /\ (configured /\ Minutes(st) > Minutes(en)) =>
              (qh.quiet <=> (Minutes(now) >= Minutes(st) \/ Minutes(now) < Minutes(en)))
         /\ (configured /\ st = <<22, 0>> /\ en = <<7, 0>>) =>
              /\ now \in {<<23, 30>>, <<3, 0>>} => qh.quiet
              /\ now \in {<<12, 0>>, <<7, 0>>} => ~qh.quiet

C12_ActiveAfterMidnight ==
    /\ qh.count > 0
    /\ settings.quietHoursStart = <<22, 0>> /\ settings.quietHoursEnd = <<7, 0>>
    /\ now = <<3, 0>>
    /\ qh.quiet

----------------------------------------------------------------------------
(* Properties of the notification channels *)

\* The last queueOrSendNotification call delivered immediately.
DeliveredNow == qh.count > 0 /\ Len(notifLog) = qh.logBefore + 1

\* C13: in an immediate delivery by queueOrSendNotification the owner channel
\* is invoked, the Telegram channel (when enabled and configured) is invoked
\* whatever the owner channel did, exception included, and the returned sent
\* flag is true if and only if at least one channel reported success.
C13_ChannelsIndependent ==
    DeliveredNow =>
      LET n == notifLog[Len(notifLog)] IN
      /\ n.owner \in OwnerOutcomes
      /\ (settings.telegram_enabled = "true" /\ settings.telegram_configured) =>
           n.telegram \in NetOutcomes
      /\ qh.result.sent <=> (n.owner = "ok" \/ n.telegram = "ok")
      /\ n.result = qh.result.sent

C13_TelegramAfterOwnerException ==
    /\ DeliveredNow
    /\ notifLog[Len(notifLog)].owner = "throw"
    /\ notifLog[Len(notifLog)].telegram = "ok"
    /\ qh.result.sent

\* C14 as stated: in a notification of the decision pipeline, when the owner
\* channel throws and Telegram is enabled and configured, Telegram is still
\* attempted, and the result is true if Telegram succeeds.
C14_OwnerExceptionDoesNotAbort ==
    \A i \in DOMAIN notifLog :
      ( /\ notifLog[i].type \in {"unknown_vehicle", "blacklist_detected", "manual_open"}
        /\ notifLog[i].owner = "throw"
        /\ settings.telegram_enabled # "false" /\ settings.telegram_configured ) =>
        /\ notifLog[i].telegram \in NetOutcomes
        /\ notifLog[i].telegram = "ok" => notifLog[i].result

----------------------------------------------------------------------------
(* Quiet hours service: sendPendingSummary *)

\* Number of sendPendingSummary runs in one behaviour.
MaxDrains == 2

\* db.getPendingNotifications(true): the ids of the rows not yet sent.
GetPendingNotifications(tbl) == { i \in DOMAIN tbl : ~tbl[i].isSent }

\* db.markNotificationsSent(ids)
MarkNotificationsSent(tbl, ids) ==
    [i \in DOMAIN tbl |-> IF i \in ids THEN [tbl[i] EXCEPT !.isSent = TRUE] ELSE tbl[i]]

\* const pending = await getPendingNotifications(true);
\* if (pending.length === 0) return { sent: 0, failed: 0 }
DrainRead ==
    /\ drain.pc \in {"idle", "returned"}
    /\ drain.count < MaxDrains
    /\ LET pending == GetPendingNotifications(pendingNotifications)
       IN drain' = [NoDrain EXCEPT
                      !.count = drain.count + 1,
                      !.digests = drain.digests,
                      !.pending = pending,
                      !.lenAtRead = Len(pendingNotifications),
                      !.sentBefore = DOMAIN pendingNotifications \ pending,
                      !.logBefore = Len(notifLog),
                      !.pc = IF pending = {} THEN "returned" ELSE "owner"]
    /\ UNCHANGED <<blacklist, vehicles, passages, barrierActions, notifLog, settings,
                   calls, nextReq, pendingNotifications, now, qh, hw,
                   admin, tgCall, runs>>

\* try { if (await notifyOwner(...)) sent++ } catch { failed++ }
DrainOwner ==
    /\ drain.pc = "owner"
    /\ \E owner \in OwnerOutcomes :
         drain' = [drain EXCEPT
                     !.pc = "telegram",
                     !.owner = owner,
                     !.sent = IF owner = "ok" THEN @ + 1 ELSE @,
                     !.failed = IF owner = "throw" THEN @ + 1 ELSE @]
    /\ UNCHANGED <<blacklist, vehicles, passages, barrierActions, notifLog, settings,
                   calls, nextReq, pendingNotifications, now, qh, hw,
                   admin, tgCall, runs>>

\* try { if (telegram_enabled === "true") if (await sendTelegramMessage(...)) sent++ }
DrainTelegram ==
    /\ drain.pc = "telegram"
    /\ \E net \in NetOutcomes :
         LET tg == IF settings.telegram_enabled = "true"
                   THEN SendTelegramMessage(settings, net)
                   ELSE [attempted |-> FALSE, result |-> FALSE]
             d == Delivery(drain.owner, tg, net)
         IN /\ drain' = [drain EXCEPT
                           !.pc = "mark",
                           !.telegram = d.telegram,
                           !.sent = IF tg.result THEN @ + 1 ELSE @]
            /\ notifLog' = LogNotification(notifLog, "quiet_hours_summary", drain.count, d)
    /\ UNCHANGED <<blacklist, vehicles, passages, barrierActions, settings,
                   calls, nextReq, pendingNotifications, now, qh, hw,
                   admin, tgCall, runs>>

\* Variant: the rows are marked whether or not a channel delivered the digest.
MarksAlways(sent) == TRUE

\* if (sent > 0)
MarksAsSent(sent) == sent > 0

\* Variant: the rows pending at the time of marking are marked.
IdsPendingNow(pending, tbl) == GetPendingNotifications(tbl)

\* const ids = pending.map(n => n.id)
IdsToMark(pending, tbl) == pending

\* if (sent > 0) await markNotificationsSent(ids); return { sent, failed }
DrainMark ==
    /\ drain.pc = "mark"
    /\ pendingNotifications' =
         IF MarksAsSent(drain.sent)
         THEN MarkNotificationsSent(pendingNotifications,
                                    IdsToMark(drain.pending, pendingNotifications))
         ELSE pendingNotifications
    /\ drain' = [drain EXCEPT
                   !.pc = "returned",
                   !.result = [sent |-> drain.sent, failed |-> drain.failed],
                   !.digests = Append(@, [ ids |-> drain.pending,
                                           delivered |-> drain.sent > 0,
                                           lenAtRead |-> drain.lenAtRead,
                                           lenAtEnd |-> Len(pendingNotifications) ])]
    /\ UNCHANGED <<blacklist, vehicles, passages, barrierActions, notifLog, settings,
                   calls, nextReq, now, qh, hw,
                   admin, tgCall, runs>>

DrainSettings ==
    { [DefaultSettings EXCEPT !.quietHoursEnabled = "true",
                              !.quietHoursStart = <<22, 0>>,
                              !.quietHoursEnd = <<7, 0>>,
                              !.telegram_enabled = t[1],
                              !.telegram_configured = t[2]] :
        t \in { <<Unset, FALSE>>, <<"true", TRUE>> } }

InitDrain ==
    /\ blacklist = InitialBlacklist
    /\ vehicles = InitialVehicles
    /\ passages = <<>>
    /\ barrierActions = <<>>
    /\ notifLog = <<>>
    /\ settings \in DrainSettings
    /\ calls = [p \in Procs |-> IdleCall]
    /\ nextReq = 0
    /\ pendingNotifications = <<>>
    /\ now = <<23, 30>>
    /\ qh = NoQh
    /\ drain = NoDrain
    /\ hw = NoHw
    /\ admin = NoAdmin
    /\ tgCall = NoTg
    /\ runs = NoRuns

NextDrain ==
    \/ QueueOrSendNotification
    \/ DrainRead
    \/ DrainOwner
    \/ DrainTelegram
    \/ DrainMark

SpecDrain == InitDrain /\ [][NextDrain]_vars

\* Rows marked sent since the running (or last) sendPendingSummary read the table.
NewlySent ==
    { i \in DOMAIN pendingNotifications : pendingNotifications[i].isSent }
      \ drain.sentBefore

\* C15: a sendPendingSummary run marks nothing before its end; when it has
\* returned it has marked every row of the pending set it read if at least one
\* channel delivered the digest, and none of them if no channel did (all stay
\* pending); never a strict subset. With no pending rows it invokes no channel
\* and returns {sent: 0, failed: 0}.
C15_DrainAllOrNothing ==
    /\ drain.pc \in {"owner", "telegram", "mark"} => NewlySent = {}
    /\ drain.pc = "returned" =>
         LET delivered == drain.owner = "ok" \/ drain.telegram = "ok" IN
         /\ NewlySent = IF delivered THEN drain.pending ELSE {}
         /\ ~delivered =>
              \A i \in drain.pending : ~pendingNotifications[i].isSent
         /\ drain.pending = {} =>
              /\ drain.owner = "skipped" /\ drain.telegram = "skipped"
              /\ Len(notifLog) = drain.logBefore
              /\ drain.result = [sent |-> 0, failed |-> 0]

\* No channel delivered the digest of two pending rows: both stay pending.
C15_FailedDigestKeepsAll ==
    /\ drain.pc = "returned"
    /\ Cardinality(drain.pending) = 2
    /\ drain.owner = "throw" /\ drain.telegram = "fail"
    /\ drain.result = [sent |-> 0, failed |-> 1]
    /\ NewlySent = {}

\* Number of delivered digests that contain row i.
DeliveredDigestsOf(i) ==
    Cardinality({ k \in DOMAIN drain.digests :
                    drain.digests[k].delivered /\ i \in drain.digests[k].ids })

----------------------------------------------------------------------------
(* The pipeline with a notification channel that may never answer *)

\* The handler is at an await of a notification function that calls a channel.
AwaitsChannel(p) ==
    \/ /\ calls[p].pc = "blockedNotify"
       /\ ShouldNotifyBlacklist(calls[p].entry)
    \/ /\ calls[p].pc = "notify"
       /\ ShouldNotifyUnknown(calls[p].isAllowed, calls[p].plate)
       /\ settings.notifications_enabled # "false"
    \/ /\ calls[p].pc = "openNotify"
       /\ settings.notifications_enabled # "false"

\* A step of a handler that does not depend on a channel answering.
LocalStep(p) ==
    /\ ~AwaitsChannel(p)
    /\ \/ AnalyzeRecognize(p, ClassifierPlates)
       \/ AnalyzeBlacklistCheck(p)
       \/ AnalyzeIncrement(p)
       \/ AnalyzeBlockedPassage(p)
       \/ AnalyzeBlockedNotify(p)
       \/ AnalyzeAllowlistCheck(p)
       \/ AnalyzePassage(p)
       \/ AnalyzeBarrier(p)
       \/ AnalyzeNotify(p)
       \/ BarrierOpenLog(p)
       \/ BarrierOpenNotify(p)

\* Every step is taken in the end, except that a channel need not answer.
SpecLive == Init /\ [][Next]_vars /\ WF_vars(\E p \in Procs : LocalStep(p))

\* C17 as stated: the response never waits on notification delivery; a handler
\* that has reached its notification step gives its answer to the caller even
\* if the channel never answers.
C17_ResponseDoesNotWait ==
    \A p \in Procs :
      (calls[p].pc \in {"blockedNotify", "notify", "openNotify"})
        ~> (calls[p].pc \in {"done", "failed"})

\* A handler that has not reached its notification step does reach it or fail.
C17_ReachesNotificationStep ==
    \A p \in Procs :
      (calls[p].pc \in {"recognize", "blacklist", "increment", "blockedPassage",
                        "allowlist", "passage", "barrier", "openLog"})
        ~> (calls[p].pc \in {"blockedNotify", "notify", "openNotify", "failed"})

----------------------------------------------------------------------------
(* Integration service: barrier and camera hardware *)

\* Number of calls to the integration service in one behaviour.
MaxExec == 2

BarrierTypes == {"came", "nice", "bft", "doorhan", "gpio", "custom_http"}
CameraTypes == {"hikvision", "dahua", "axis", "onvif", "custom_rtsp", "custom_http"}
BarrierCommandActions == {"open", "close", "status"}

\* What the device does with a request: answers 2xx, or axios rejects.
TransportOutcomes == {"ok", "timeout", "refused", "http500"}

\* A row of barrierIntegrations or cameraIntegrations. configured stands for the
\* command endpoints (barrier) or httpSnapshotUrl (camera) being set.
IntegrationRow(type, isActive, isPrimary, configured) ==
    [ type |-> type, isActive |-> isActive, isPrimary |-> isPrimary,
      configured |-> configured, lastStatus |-> "unknown", lastError |-> "none" ]

\* A failure result produced without a request to the device.
Failure(message) ==
    [success |-> FALSE, error |-> message, contacted |-> FALSE, threw |-> FALSE]

\* try { await axios(...); return {success: true} }
\* catch (error) { return {success: false, error: error.message || '...'} }
RequestDevice(transport) ==
    [ success |-> transport = "ok",
      error |-> IF transport = "ok" THEN "none" ELSE transport,
      contacted |-> TRUE,
      threw |-> FALSE ]

\* Variant: the rejection of axios is not caught.
RequestDeviceUncaught(integration, action, transport) ==
    [ success |-> transport = "ok",
      error |-> "none",
      contacted |-> TRUE,
      threw |-> transport # "ok" ]

\* handleCameBarrier, handleNiceBarrier, handleBftBarrier, handleDoorhanBarrier,
\* handleGpioBarrier
HandleVendorBarrier(integration, action, transport) == RequestDevice(transport)

\* handleCustomHttpBarrier
HandleCustomHttpBarrier(integration, action, transport) ==
    IF ~integration.configured THEN Failure("No endpoint configured for action")
    ELSE RequestDevice(transport)

\* handleHikvisionCamera, handleDahuaCamera, handleAxisCamera, handleOnvifCamera
\* with action 'snapshot'
HandleVendorSnapshot(integration, transport) == RequestDevice(transport)

\* handleCustomRtspCamera, handleCustomHttpCamera with action 'snapshot'
HandleCustomSnapshot(integration, transport) ==
    IF ~integration.configured THEN Failure("No snapshot URL configured")
    ELSE RequestDevice(transport)

\* switch (integration.type) of executeBarrierCommand
DispatchBarrier(integration, action, transport) ==
    IF integration.type \in BarrierTypes \ {"custom_http"}
    THEN HandleVendorBarrier(integration, action, transport)
    ELSE IF integration.type = "custom_http"
    THEN HandleCustomHttpBarrier(integration, action, transport)
    ELSE Failure("Unknown integration type")

\* switch (integration.type) of getCameraSnapshot
DispatchSnapshot(integration, transport) ==
    IF integration.type \in CameraTypes \ {"custom_rtsp", "custom_http"}
    THEN HandleVendorSnapshot(integration, transport)
    ELSE IF integration.type \in {"custom_rtsp", "custom_http"}
    THEN HandleCustomSnapshot(integration, transport)
    ELSE Failure("Unknown integration type")

\* db.updateBarrierIntegrationStatus, db.updateCameraIntegrationStatus
UpdateIntegrationStatus(tbl, id, status, error) ==
    [tbl EXCEPT ![id].lastStatus = status, ![id].lastError = error]

\* response.success ? 'online' : 'error'
StatusOf(response) == IF response.success THEN "online" ELSE "error"

\* Variant: the isActive flag of the row is not looked at.
ExecuteBarrierIgnoringActive(tbl, id, action, transport) ==
    IF id \notin DOMAIN tbl
    THEN [response |-> Failure("Integration not found"), tbl |-> tbl]
    ELSE LET response == DispatchBarrier(tbl[id], action, transport)
         IN [ response |-> response,
              tbl |-> UpdateIntegrationStatus(tbl, id, StatusOf(response), response.error) ]

\* executeBarrierCommand: the response and the table it leaves.
ExecuteBarrier(tbl, id, action, transport) ==
    IF id \notin DOMAIN tbl
    THEN [response |-> Failure("Integration not found"), tbl |-> tbl]
    ELSE IF ~tbl[id].isActive
    THEN [response |-> Failure("Integration is not active"), tbl |-> tbl]
    ELSE LET response == DispatchBarrier(tbl[id], action, transport)
         IN [ response |-> response,
              tbl |-> UpdateIntegrationStatus(tbl, id, StatusOf(response), response.error) ]

\* getCameraSnapshot: the response and the table it leaves.
CameraSnapshot(tbl, id, transport) ==
    IF id \notin DOMAIN tbl
    THEN [response |-> Failure("Integration not found"), tbl |-> tbl]
    ELSE IF ~tbl[id].isActive
    THEN [response |-> Failure("Integration is not active"), tbl |-> tbl]
    ELSE LET response == DispatchSnapshot(tbl[id], transport)
         IN [ response |-> response,
              tbl |-> UpdateIntegrationStatus(tbl, id, StatusOf(response), response.error) ]

\* getCameraStreamInfo: URLs are composed from the row, no request is made and
\* the table is not written.
CameraStreamInfo(tbl, id) ==
    IF id \notin DOMAIN tbl THEN Failure("Integration not found")
    ELSE IF ~tbl[id].isActive THEN Failure("Integration is not active")
    ELSE IF tbl[id].type \in CameraTypes
    THEN [success |-> TRUE, error |-> "none", contacted |-> FALSE, threw |-> FALSE]
    ELSE Failure("Unknown integration type")

\* db.getPrimaryBarrierIntegration, db.getPrimaryCameraIntegration: the id of
\* the row flagged primary, else of the first active row, else 0 (null).
GetPrimaryIntegration(tbl) ==
    LET flagged == { i \in DOMAIN tbl : tbl[i].isPrimary }
        active == { i \in DOMAIN tbl : tbl[i].isActive }
    IN IF flagged # {} THEN MinOf(flagged)
       ELSE IF active # {} THEN MinOf(active)
       ELSE 0

CallRecord(op, id, transport, response, before) ==
    [ op |-> op, id |-> id, transport |-> transport,
      response |-> response, before |-> before ]

\* Ids a caller may pass: those of the rows, and one that does not exist.
IntegrationIds(tbl) == 1..(Len(tbl) + 1)

\* integrationService.executeBarrierCommand
ExecuteBarrierCommand ==
    /\ hw.count < MaxExec
    /\ \E id \in IntegrationIds(hw.barriers), action \in BarrierCommandActions,
          transport \in TransportOutcomes :
         LET r == ExecuteBarrier(hw.barriers, id, action, transport)
         IN hw' = [hw EXCEPT
                     !.count = @ + 1,
                     !.barriers = r.tbl,
                     !.last = CallRecord("executeBarrierCommand", id, transport,
                                         r.response, hw.barriers)]
    /\ UNCHANGED <<blacklist, vehicles, passages, barrierActions, notifLog, settings,
                   calls, nextReq, pendingNotifications, now, qh, drain,
                   admin, tgCall, runs>>

\* if (!primary) return {success: false, ...}
NoPrimary(primary) == primary = 0

\* integrationService.executePrimaryBarrierCommand
ExecutePrimaryBarrierCommand ==
    /\ hw.count < MaxExec
    /\ \E action \in BarrierCommandActions, transport \in TransportOutcomes :
         LET primary == GetPrimaryIntegration(hw.barriers)
             r == IF NoPrimary(primary)
                  THEN [ response |-> Failure("No primary barrier integration configured"),
                         tbl |-> hw.barriers ]
                  ELSE ExecuteBarrier(hw.barriers, primary, action, transport)
         IN hw' = [hw EXCEPT
                     !.count = @ + 1,
                     !.barriers = r.tbl,
                     !.last = CallRecord("executePrimaryBarrierCommand", primary, transport,
                                         r.response, hw.barriers)]
    /\ UNCHANGED <<blacklist, vehicles, passages, barrierActions, notifLog, settings,
                   calls, nextReq, pendingNotifications, now, qh, drain,
                   admin, tgCall, runs>>

\* integrationService.getCameraSnapshot
GetCameraSnapshot ==
    /\ hw.count < MaxExec
    /\ \E id \in IntegrationIds(hw.cameras), transport \in TransportOutcomes :
         LET r == CameraSnapshot(hw.cameras, id, transport)
         IN hw' = [hw EXCEPT
                     !.count = @ + 1,
                     !.cameras = r.tbl,
                     !.last = CallRecord("getCameraSnapshot", id, transport,
                                         r.response, hw.cameras)]
    /\ UNCHANGED <<blacklist, vehicles, passages, barrierActions, notifLog, settings,
                   calls, nextReq, pendingNotifications, now, qh, drain,
                   admin, tgCall, runs>>

\* integrationService.getPrimaryCameraSnapshot
GetPrimaryCameraSnapshot ==
    /\ hw.count < MaxExec
    /\ \E transport \in TransportOutcomes :
         LET primary == GetPrimaryIntegration(hw.cameras)
             r == IF NoPrimary(primary)
                  THEN [ response |-> Failure("No primary camera integration configured"),
                         tbl |-> hw.cameras ]
                  ELSE CameraSnapshot(hw.cameras, primary, transport)
         IN hw' = [hw EXCEPT
                     !.count = @ + 1,
                     !.cameras = r.tbl,
                     !.last = CallRecord("getPrimaryCameraSnapshot", primary, transport,
                                         r.response, hw.cameras)]
    /\ UNCHANGED <<blacklist, vehicles, passages, barrierActions, notifLog, settings,
                   calls, nextReq, pendingNotifications, now, qh, drain,
                   admin, tgCall, runs>>

\* integrationService.getCameraStreamInfo
GetCameraStreamInfo ==
    /\ hw.count < MaxExec
    /\ \E id \in IntegrationIds(hw.cameras) :
         hw' = [hw EXCEPT
                  !.count = @ + 1,
                  !.last = CallRecord("getCameraStreamInfo", id, "ok",
                                      CameraStreamInfo(hw.cameras, id), hw.cameras)]
    /\ UNCHANGED <<blacklist, vehicles, passages, barrierActions, notifLog, settings,
                   calls, nextReq, pendingNotifications, now, qh, drain,
                   admin, tgCall, runs>>

\* Barrier tables the service is run against: empty; one active primary; an
\* inactive primary beside an active row; no primary, with an unconfigured
\* custom row and a row of a type the service does not know; none active, one
\* of them flagged primary; the first active row in second place.
BarrierTables ==
    { <<>>,
      << IntegrationRow("came", TRUE, TRUE, TRUE) >>,
      << IntegrationRow("gpio", FALSE, TRUE, TRUE),
         IntegrationRow("nice", TRUE, FALSE, TRUE) >>,
      << IntegrationRow("custom_http", TRUE, FALSE, FALSE),
         IntegrationRow("legacy", TRUE, FALSE, TRUE) >>,
      << IntegrationRow("bft", FALSE, TRUE, TRUE),
         IntegrationRow("doorhan", FALSE, FALSE, TRUE) >>,
      << IntegrationRow("doorhan", FALSE, FALSE, TRUE),
         IntegrationRow("custom_http", TRUE, FALSE, TRUE) >> }

CameraTables ==
    { <<>>,
      << IntegrationRow("hikvision", TRUE, TRUE, TRUE) >>,
      << IntegrationRow("dahua", FALSE, TRUE, TRUE),
         IntegrationRow("axis", TRUE, FALSE, TRUE) >>,
      << IntegrationRow("custom_rtsp", TRUE, FALSE, FALSE),
         IntegrationRow("legacy", TRUE, FALSE, TRUE) >>,
      << IntegrationRow("onvif", FALSE, TRUE, TRUE),
         IntegrationRow("custom_http", FALSE, FALSE, TRUE) >> }

InitHardware ==
    /\ blacklist = InitialBlacklist
    /\ vehicles = InitialVehicles
    /\ passages = <<>>
    /\ barrierActions = <<>>
    /\ notifLog = <<>>
    /\ settings = DefaultSettings
    /\ calls = [p \in Procs |-> IdleCall]
    /\ nextReq = 0
    /\ pendingNotifications = <<>>
    /\ now = <<12, 0>>
    /\ qh = NoQh
    /\ drain = NoDrain
    /\ admin = NoAdmin
    /\ tgCall = NoTg
    /\ runs = NoRuns
    /\ \E b \in BarrierTables, c \in CameraTables :
         hw = [NoHw EXCEPT !.barriers = b, !.cameras = c]

NextHardware ==
    \/ ExecuteBarrierCommand
    \/ ExecutePrimaryBarrierCommand
    \/ GetCameraSnapshot
    \/ GetPrimaryCameraSnapshot
    \/ GetCameraStreamInfo

SpecHardware == InitHardware /\ [][NextHardware]_vars

BarrierOps == {"executeBarrierCommand", "executePrimaryBarrierCommand"}
SnapshotOps == {"getCameraSnapshot", "getPrimaryCameraSnapshot"}
PrimaryOps == {"executePrimaryBarrierCommand", "getPrimaryCameraSnapshot"}

\* The row the last call was made for, if the id exists.
TargetExists == hw.last.id \in DOMAIN hw.last.before
Target == hw.last.before[hw.last.id]

\* The table the last call worked on, as it is now.
TableNow == IF hw.last.op \in BarrierOps THEN hw.barriers ELSE hw.cameras

KnownTypes == IF hw.last.op \in BarrierOps THEN BarrierTypes ELSE CameraTypes

\* C18: a barrier action (open, close, status) or camera snapshot whose request
\* to the device fails (timeout, connection refused, non-2xx) comes back as
\* {success: false, error: <message>} and no exception escapes; an integration
\* of an unknown vendor type likewise gives a failure result, without a request.
C18_TransportFailureIsResult ==
    (hw.count > 0 /\ hw.last.op \in BarrierOps \cup SnapshotOps) =>
      LET r == hw.last.response IN
      /\ ~r.threw
      /\ (r.contacted /\ hw.last.transport # "ok") =>
           ~r.success /\ r.error = hw.last.transport
      /\ r.success => r.contacted /\ hw.last.transport = "ok" /\ r.error = "none"
      /\ (TargetExists /\ Target.isActive /\ Target.type \notin KnownTypes) =>
           ~r.success /\ r.error = "Unknown integration type" /\ ~r.contacted

C18_BarrierTimeoutReturned ==
    /\ hw.count > 0
    /\ hw.last.op = "executeBarrierCommand"
    /\ hw.last.transport = "timeout"
    /\ hw.last.response =
         [success |-> FALSE, error |-> "timeout", contacted |-> TRUE, threw |-> FALSE]

\* C19 as stated: after executeBarrierCommand, getCameraSnapshot or
\* getCameraStreamInfo on an existing integration, its lastStatus is online when
\* the result is a success and error or offline when it is a failure (the
\* failure for an inactive integration included), and its lastError is the
\* error of the result.
C19_StatusUpdatedAfterEveryCall ==
    ( /\ hw.count > 0
      /\ hw.last.op \in {"executeBarrierCommand", "getCameraSnapshot", "getCameraStreamInfo"}
      /\ TargetExists ) =>
      LET row == TableNow[hw.last.id] IN
      /\ hw.last.response.success => row.lastStatus = "online"
      /\ ~hw.last.response.success => row.lastStatus \in {"error", "offline"}
      /\ row.lastError = hw.last.response.error

\* The integration chosen for automatic flows: 0 if there is none.
ChosenPrimary(tbl) ==
    IF \E i \in DOMAIN tbl : tbl[i].isPrimary
    THEN CHOOSE i \in DOMAIN tbl :
           tbl[i].isPrimary /\ \A j \in 1..(i - 1) : ~tbl[j].isPrimary
    ELSE IF \E i \in DOMAIN tbl : tbl[i].isActive
    THEN CHOOSE i \in DOMAIN tbl :
           tbl[i].isActive /\ \A j \in 1..(i - 1) : ~tbl[j].isActive
    ELSE 0

----------------------------------------------------------------------------
(* CSV text: blacklist.export, parseCSVLine and the parsing of blacklist.import *)

Quote == "\""
Comma == ","

RECURSIVE TrimStart(_)
TrimStart(s) ==
    IF s # <<>> /\ IsWhitespace(Head(s)) THEN TrimStart(Tail(s)) ELSE s

RECURSIVE TrimEnd(_)
TrimEnd(s) ==
    IF s # <<>> /\ IsWhitespace(s[Len(s)]) THEN TrimEnd(SubSeq(s, 1, Len(s) - 1)) ELSE s

\* String.prototype.trim
Trim(s) == TrimEnd(TrimStart(s))

RECURSIVE SplitFrom(_, _)
SplitFrom(s, current) ==
    IF s = <<>> THEN <<current>>
    ELSE IF Head(s) = Newline THEN <<current>> \o SplitFrom(Tail(s), <<>>)
    ELSE SplitFrom(Tail(s), Append(current, Head(s)))

\* csvData.split('\n')
SplitLines(s) == SplitFrom(s, <<>>)

RECURSIVE JoinWith(_, _)
\* Array.prototype.join
JoinWith(parts, sep) ==
    IF parts = <<>> THEN <<>>
    ELSE IF Len(parts) = 1 THEN parts[1]
    ELSE parts[1] \o <<sep>> \o JoinWith(Tail(parts), sep)

RECURSIVE ParseCSVFrom(_, _, _, _, _)
ParseCSVFrom(line, i, current, inQuotes, result) ==
    IF i > Len(line) THEN Append(result, Trim(current))
    ELSE IF line[i] = Quote
    THEN IF inQuotes /\ i + 1 <= Len(line) /\ line[i + 1] = Quote
         THEN ParseCSVFrom(line, i + 2, Append(current, Quote), inQuotes, result)
         ELSE ParseCSVFrom(line, i + 1, current, ~inQuotes, result)
    ELSE IF line[i] = Comma /\ ~inQuotes
    THEN ParseCSVFrom(line, i + 1, <<>>, inQuotes, Append(result, Trim(current)))
    ELSE ParseCSVFrom(line, i + 1, Append(current, line[i]), inQuotes, result)

\* parseCSVLine
ParseCSVLine(line) == ParseCSVFrom(line, 1, <<>>, FALSE, <<>>)

\* `"${cell}"`
QuoteCell(cell) == <<Quote>> \o cell \o <<Quote>>

\* (text || '').replace(/["\n\r]/g, ' ')
SanitizeText(text) ==
    [i \in 1..Len(text) |-> IF text[i] = Quote \/ text[i] = Newline THEN " " ELSE text[i]]

\* The columns the export writes and the import reads; ownerName, vehicleModel
\* and vehicleColor are written and read as reason is, and attemptCount,
\* expiresAt and createdAt are written but never read back.
ExportHeaders ==
    << <<"licensePlate">>, <<"severity">>, <<"reason">>, <<"notifyOnDetection">>,
       <<"isActive">> >>

BooleanText(b) == IF b THEN <<"true">> ELSE <<"false">>

ExportRow(entry) ==
    << entry.licensePlate,
       <<entry.severity>>,
       SanitizeText(entry.reason),
       BooleanText(entry.notifyOnDetection),
       BooleanText(entry.isActive) >>

----------------------------------------------------------------------------
(* Blacklist administration: blacklist.create, update, export and import *)

\* Number of administration calls in one behaviour.
MaxAdmin == 3

\* A row of table blacklist as the administration writes it.
BlacklistEntryRow(plate, severity, reason, notify) ==
    [ licensePlate      |-> plate,
      isActive          |-> TRUE,
      expired           |-> FALSE,
      notifyOnDetection |-> notify,
      severity          |-> severity,
      attemptCount      |-> 0,
      reason            |-> reason ]

\* db.getBlacklistEntryByPlate: the id of the row of the normalized plate, or 0.
GetBlacklistEntryByPlate(tbl, text) ==
    LET ids == { i \in DOMAIN tbl : tbl[i].licensePlate = NormalizePlate(text) }
    IN IF ids = {} THEN 0 ELSE MinOf(ids)

\* db.createBlacklistEntry: the plate is stored normalized.
CreateBlacklistEntry(tbl, plate, severity, reason, notify) ==
    Append(tbl, BlacklistEntryRow(NormalizePlate(plate), severity, reason, notify))

\* db.updateBlacklistEntry
UpdateBlacklistEntry(tbl, id, severity, reason, notify) ==
    [tbl EXCEPT ![id].severity = severity, ![id].reason = reason,
                ![id].notifyOnDetection = notify]

RECURSIVE SelectRows(_, _, _)
SelectRows(tbl, i, includeInactive) ==
    IF i > Len(tbl) THEN <<>>
    ELSE (IF includeInactive \/ tbl[i].isActive THEN <<tbl[i]>> ELSE <<>>)
           \o SelectRows(tbl, i + 1, includeInactive)

\* db.getAllBlacklistEntries
GetAllBlacklistEntries(tbl, includeInactive) == SelectRows(tbl, 1, includeInactive)

\* row.map(cell => `"${cell}"`).join(',')
ExportLine(entry) ==
    LET row == ExportRow(entry)
    IN JoinWith([i \in 1..Len(row) |-> QuoteCell(row[i])], Comma)

\* blacklist.export: the csv of the reply.
ExportCsv(tbl, includeInactive) ==
    LET entries == GetAllBlacklistEntries(tbl, includeInactive)
    IN JoinWith(<<JoinWith(ExportHeaders, Comma)>>
                  \o [i \in 1..Len(entries) |-> ExportLine(entries[i])],
                Newline)

EmptyCsv == "BAD_REQUEST: CSV file is empty or has no data rows"
MissingFields == "BAD_REQUEST: Missing required fields: licensePlate"

NoResults == [imported |-> 0, updated |-> 0, skipped |-> 0, errors |-> <<>>]

\* headers.forEach((header, index) => rowData[header] = values[index] || ''),
\* then rowData[name]; a column that is not there reads as falsy too.
RowValue(headers, values, name) ==
    LET idx == { i \in DOMAIN headers : headers[i] = <<name>> }
    IN IF idx = {} THEN <<>>
       ELSE LET i == CHOOSE j \in idx : \A k \in idx : k <= j
            IN IF i <= Len(values) THEN values[i] ELSE <<>>

IsSeverity(cell) == Len(cell) = 1 /\ cell[1] \in Severities

\* Variant: a row of an existing plate is skipped whenever skipDuplicates is set.
SkipBeforeUpdate(skipDuplicates, updateExisting) ==
    IF skipDuplicates THEN "skip"
    ELSE IF updateExisting THEN "update"
    ELSE "error"

\* if (updateExisting) ... else if (skipDuplicates) ... else ...
DuplicateHandling(skipDuplicates, updateExisting) ==
    IF updateExisting THEN "update"
    ELSE IF skipDuplicates THEN "skip"
    ELSE "error"

RowError(st, rowNo, plate, error) ==
    [st EXCEPT !.results.errors =
                 Append(@, [row |-> rowNo, plate |-> plate, error |-> error])]

\* Variant: a row whose database call throws ends the loop.
StopAtThrow(st, k) == [st EXCEPT !.stopped = TRUE]

\* catch (error) of the row: the error is recorded and the loop goes on.
CatchRowError(st, k) == RowError(st, k, <<"unknown">>, DatabaseError)

\* Variant: the plate is not looked up.
NeverExisting(tbl, plate) == 0

\* existing = await getBlacklistEntryByPlate(licensePlate)
ExistingEntry(tbl, plate) == GetBlacklistEntryByPlate(tbl, plate)

\* One turn of the loop over the lines: st is the table and the results so far,
\* k the line (row number i + 1), throws the rows at which a database call throws.
ImportRow(st, headers, rawLine, k, skipDuplicates, updateExisting, throws) ==
    LET line == Trim(rawLine)
        values == ParseCSVLine(line)
        licensePlate == NormalizePlate(RowValue(headers, values, "licensePlate"))
        severity == RowValue(headers, values, "severity")
        reason == RowValue(headers, values, "reason")
        notify == RowValue(headers, values, "notifyOnDetection")
        existing == ExistingEntry(st.tbl, licensePlate)
        handling == DuplicateHandling(skipDuplicates, updateExisting)
    IN IF line = <<>> THEN st
       ELSE IF licensePlate = <<>> THEN RowError(st, k, <<>>, "Empty license plate")
       ELSE IF k \in throws THEN CatchRowError(st, k)
       ELSE IF existing # 0
       THEN IF handling = "update"
            THEN IF severity # <<>> /\ ~IsSeverity(severity)
                 THEN CatchRowError(st, k)      \* the enum column rejects the value
                 ELSE [st EXCEPT
                         !.tbl = UpdateBlacklistEntry(@, existing,
                                   IF severity # <<>> THEN severity[1]
                                   ELSE st.tbl[existing].severity,
                                   IF reason # <<>> THEN reason
                                   ELSE st.tbl[existing].reason,
                                   IF notify = <<"true">> THEN TRUE
                                   ELSE IF notify = <<"false">> THEN FALSE
                                   ELSE st.tbl[existing].notifyOnDetection),
                         !.results.updated = @ + 1]
            ELSE IF handling = "skip"
            THEN [st EXCEPT !.results.skipped = @ + 1]
            ELSE RowError(st, k, licensePlate, "Duplicate plate")
       ELSE [st EXCEPT
               !.tbl = CreateBlacklistEntry(@, licensePlate,
                         IF IsSeverity(severity) THEN severity[1] ELSE "medium",
                         reason, notify # <<"false">>),
               !.results.imported = @ + 1]

RECURSIVE ImportRows(_, _, _, _, _, _, _)
\* for (let i = 1; i < lines.length; i++)
ImportRows(st, headers, lines, k, skipDuplicates, updateExisting, throws) ==
    IF k > Len(lines) \/ st.stopped THEN st
    ELSE ImportRows(ImportRow(st, headers, lines[k], k, skipDuplicates, updateExisting, throws),
                    headers, lines, k + 1, skipDuplicates, updateExisting, throws)

Rejected(tbl, error) ==
    [rejected |-> TRUE, error |-> error, results |-> NoResults, tbl |-> tbl]

\* blacklist.import: the reply and the table it leaves.
ImportCsv(tbl, csvData, skipDuplicates, updateExisting, throws) ==
    LET lines == SplitLines(Trim(csvData))
        headers == ParseCSVLine(lines[1])
    IN IF Len(lines) < 2 THEN Rejected(tbl, EmptyCsv)
       ELSE IF \A i \in DOMAIN headers : headers[i] # <<"licensePlate">>
       THEN Rejected(tbl, MissingFields)
       ELSE LET st == ImportRows([tbl |-> tbl, results |-> NoResults, stopped |-> FALSE],
                                 headers, lines, 2, skipDuplicates, updateExisting, throws)
            IN [rejected |-> FALSE, error |-> "none", results |-> st.results, tbl |-> st.tbl]

PlateConflict == "CONFLICT: This plate is already in the blacklist"

AdminCall(op, args, reply) ==
    [ admin EXCEPT !.count = @ + 1, !.op = op, !.args = args, !.reply = reply,
                   !.blacklistBefore = blacklist, !.vehiclesBefore = vehicles ]

\* Plates typed into blacklist.create: z.string().min(1).max(20)
CreatePlates == { <<"c">>, <<"A", " ", "b">> }

\* blacklist.create
BlacklistCreate ==
    /\ admin.count < MaxAdmin
    /\ \E plate \in CreatePlates, severity \in {"high"} :
         IF GetBlacklistEntryByPlate(blacklist, plate) # 0
         THEN /\ admin' = AdminCall("blacklist.create", [licensePlate |-> plate],
                                    [rejected |-> TRUE, error |-> PlateConflict])
              /\ UNCHANGED blacklist
         ELSE /\ blacklist' = CreateBlacklistEntry(blacklist, plate, severity, <<>>, TRUE)
              /\ admin' = AdminCall("blacklist.create", [licensePlate |-> plate],
                                    [rejected |-> FALSE, error |-> "none"])
    /\ UNCHANGED <<vehicles, passages, barrierActions, notifLog, settings,
                   calls, nextReq, pendingNotifications, now, qh, drain, hw,
                   tgCall, runs>>

\* blacklist.update({id, isActive}) -> db.updateBlacklistEntry
BlacklistSetActive ==
    /\ admin.count < MaxAdmin
    /\ \E id \in DOMAIN blacklist, isActive \in BOOLEAN :
         /\ blacklist[id].isActive # isActive
         /\ blacklist' = [blacklist EXCEPT ![id].isActive = isActive]
         /\ admin' = AdminCall("blacklist.update", [id |-> id, isActive |-> isActive],
                               [rejected |-> FALSE, error |-> "none"])
    /\ UNCHANGED <<vehicles, passages, barrierActions, notifLog, settings,
                   calls, nextReq, pendingNotifications, now, qh, drain, hw,
                   tgCall, runs>>

\* blacklist.export
BlacklistExport ==
    /\ admin.count < MaxAdmin
    /\ \E includeInactive \in BOOLEAN :
         LET csv == ExportCsv(blacklist, includeInactive)
             count == Len(GetAllBlacklistEntries(blacklist, includeInactive))
         IN admin' = [ AdminCall("blacklist.export", [includeInactive |-> includeInactive],
                                 [rejected |-> FALSE, error |-> "none", count |-> count])
                       EXCEPT !.exported = blacklist, !.exportedCount = count,
                              !.csv = csv ]
    /\ UNCHANGED <<blacklist, vehicles, passages, barrierActions, notifLog, settings,
                   calls, nextReq, pendingNotifications, now, qh, drain, hw,
                   tgCall, runs>>

CsvLine(cells) == JoinWith(cells, Comma)
CsvText(lines) == JoinWith(lines, Newline)

\* Files given to blacklist.import:
\*   a plate in two spellings, the first row with a quoted cell holding a comma;
\*   a header without the licensePlate column;
\*   a header and blank lines only;
\*   a row with an empty plate, a blank line, a row with one cell;
\*   a quoted plate with a doubled quote inside.
ImportFiles ==
    { CsvText(<< CsvLine(<< <<"licensePlate">>, <<"severity">>, <<"reason">> >>),
                 CsvLine(<< <<"a", " ", "b">>, <<"low">>, <<Quote, "x", Comma, "y", Quote>> >>),
                 CsvLine(<< <<"A", "B">>, <<"critical">> >>) >>),
      CsvText(<< CsvLine(<< <<"severity">>, <<"reason">> >>),
                 CsvLine(<< <<"high">>, <<"x">> >>) >>),
      CsvText(<< <<"licensePlate">>, <<" ">>, <<>> >>),
      CsvText(<< CsvLine(<< <<"licensePlate">>, <<"severity">> >>),
                 CsvLine(<< <<>>, <<"high">> >>),
                 <<" ">>,
                 <<"c">> >>),
      CsvText(<< CsvLine(<< <<"licensePlate">>, <<"notifyOnDetection">> >>),
                 CsvLine(<< <<Quote, "A", Quote, Quote, "B", Quote>>, <<"false">> >>) >>) }

\* Rows at which a database call of the import throws.
ThrowingRows == { {}, {2} }

\* blacklist.import, given one of the files or the csv of the last export
BlacklistImport ==
    /\ admin.count < MaxAdmin
    /\ \E csvData \in ImportFiles \cup {admin.csv},
          skipDuplicates \in BOOLEAN, updateExisting \in BOOLEAN,
          throws \in ThrowingRows :
         LET r == ImportCsv(blacklist, csvData, skipDuplicates, updateExisting, throws)
         IN /\ blacklist' = r.tbl
            /\ admin' = AdminCall("blacklist.import",
                          [ csvData |-> csvData, skipDuplicates |-> skipDuplicates,
                            updateExisting |-> updateExisting, throws |-> throws ],
                          [ rejected |-> r.rejected, error |-> r.error,
                            results |-> r.results ])
    /\ UNCHANGED <<vehicles, passages, barrierActions, notifLog, settings,
                   calls, nextReq, pendingNotifications, now, qh, drain, hw,
                   tgCall, runs>>

InitRegistry ==
    /\ blacklist = <<>>
    /\ vehicles = <<>>
    /\ passages = <<>>
    /\ barrierActions = <<>>
    /\ notifLog = <<>>
    /\ settings = DefaultSettings
    /\ calls = [p \in Procs |-> IdleCall]
    /\ nextReq = 0
    /\ pendingNotifications = <<>>
    /\ now = <<12, 0>>
    /\ qh = NoQh
    /\ drain = NoDrain
    /\ hw = NoHw
    /\ admin = NoAdmin
    /\ tgCall = NoTg
    /\ runs = NoRuns

NextBlacklistAdmin ==
    \/ BlacklistCreate
    \/ BlacklistSetActive
    \/ BlacklistExport
    \/ BlacklistImport

SpecBlacklistAdmin == InitRegistry /\ [][NextBlacklistAdmin]_vars

----------------------------------------------------------------------------
(* Properties of blacklist.import and blacklist.export *)

Imported == admin.op = "blacklist.import"
ImportAccepted == Imported /\ ~admin.reply.rejected

\* The file of the last import, read line by line.
FileLines == SplitLines(Trim(admin.args.csvData))
FileHeaders == ParseCSVLine(FileLines[1])
HasPlateColumn == \E i \in DOMAIN FileHeaders : FileHeaders[i] = <<"licensePlate">>

\* The non-blank data rows, by row number, and the normalized plate of each.
DataRows == { k \in 2..Len(FileLines) : Trim(FileLines[k]) # <<>> }
PlateOfRow(k) ==
    NormalizePlate(RowValue(FileHeaders, ParseCSVLine(Trim(FileLines[k])), "licensePlate"))

PlatesIn(tbl) == { tbl[i].licensePlate : i \in DOMAIN tbl }

\* Rows that reach the database: a plate is there and no call throws.
ProcessedRows == { k \in DataRows : PlateOfRow(k) # <<>> /\ k \notin admin.args.throws }

\* The plate of row k is in the table when the row is processed: it was there
\* before the import or an earlier row of the file carries it.
ExistsAtRow(k) ==
    \/ PlateOfRow(k) \in PlatesIn(admin.blacklistBefore)
    \/ \E j \in ProcessedRows : j < k /\ PlateOfRow(j) = PlateOfRow(k)

DuplicateRows == { k \in ProcessedRows : ExistsAtRow(k) }
NewRows == ProcessedRows \ DuplicateRows

ErrorRows(error) ==
    { admin.reply.results.errors[i].row :
        i \in { j \in DOMAIN admin.reply.results.errors :
                  admin.reply.results.errors[j].error = error } }

\* The rows that were in the table before the import are as they were.
OldEntriesUnchanged == SubSeq(blacklist, 1, Len(admin.blacklistBefore)) = admin.blacklistBefore

\* C21: a row of blacklist.import whose normalized plate already exists is
\* updated and counted as updated if updateExisting is set, whatever
\* skipDuplicates is; otherwise it is counted as skipped if skipDuplicates is
\* set, the entry unchanged; otherwise it is reported as a 'Duplicate plate'
\* error; and no entry is created for it.
C21_DuplicateRowHandling ==
    ImportAccepted =>
      LET r == admin.reply.results
          n == Cardinality(DuplicateRows)
      IN /\ Len(blacklist) - Len(admin.blacklistBefore) = Cardinality(NewRows)
         /\ admin.args.updateExisting =>
              /\ r.updated = n /\ r.skipped = 0 /\ ErrorRows("Duplicate plate") = {}
              /\ \A k \in DuplicateRows :
                   LET severity == RowValue(FileHeaders, ParseCSVLine(Trim(FileLines[k])),
                                            "severity")
                       id == GetBlacklistEntryByPlate(blacklist, PlateOfRow(k))
                   IN (IsSeverity(severity)
                         /\ \A j \in DuplicateRows : PlateOfRow(j) = PlateOfRow(k) => j <= k)
                        => blacklist[id].severity = severity[1]
         /\ (~admin.args.updateExisting /\ admin.args.skipDuplicates) =>
              /\ r.skipped = n /\ r.updated = 0 /\ ErrorRows("Duplicate plate") = {}
              /\ OldEntriesUnchanged
         /\ (~admin.args.updateExisting /\ ~admin.args.skipDuplicates) =>
              /\ ErrorRows("Duplicate plate") = DuplicateRows
              /\ r.skipped = 0 /\ r.updated = 0
              /\ OldEntriesUnchanged

\* Both flags set and a row of an existing plate: the entry took the row's severity.
C21_UpdateWinsOverSkip ==
    /\ ImportAccepted
    /\ admin.args.updateExisting /\ admin.args.skipDuplicates
    /\ admin.reply.results.updated = 2 /\ admin.reply.results.skipped = 0
    /\ Len(admin.blacklistBefore) = 1 /\ Len(blacklist) = 1
    /\ admin.blacklistBefore[1].severity = "high"
    /\ blacklist[1].severity = "critical"

\* C22: a data row with an empty or missing licensePlate value, or one at which
\* a database call throws, is recorded as an error of that row and the other
\* rows are still processed; the import is rejected as a whole, nothing created
\* or updated, exactly when the header lacks the licensePlate column or the
\* file has no data row.
C22_RowErrorsDoNotStopImport ==
    Imported =>
      /\ admin.reply.rejected <=> (DataRows = {} \/ ~HasPlateColumn)
      /\ admin.reply.rejected =>
           /\ blacklist = admin.blacklistBefore
           /\ admin.reply.error \in {EmptyCsv, MissingFields}
      /\ ~admin.reply.rejected =>
           /\ \A k \in DataRows :
                PlateOfRow(k) = <<>> => k \in ErrorRows("Empty license plate")
           /\ \A k \in DataRows :
                (PlateOfRow(k) # <<>> /\ k \in admin.args.throws) => k \in ErrorRows(DatabaseError)
           /\ \A k \in ProcessedRows : PlateOfRow(k) \in PlatesIn(blacklist)

\* The first data row fails in the database and the row after it is imported.
C22_RowAfterFailureImported ==
    /\ ImportAccepted
    /\ admin.args.throws = {2}
    /\ 2 \in ErrorRows(DatabaseError)
    /\ 3 \in ProcessedRows
    /\ admin.reply.results.imported = 1
    /\ Len(blacklist) = Len(admin.blacklistBefore) + 1

\* C30: in an import that is not rejected every non-blank data row is counted
\* once: imported + updated + skipped + errors is the number of non-blank data
\* rows, imported is the number of entries created, and a plate repeated in the
\* file does not get a second entry.
C30_EveryRowCountedOnce ==
    ImportAccepted =>
      LET r == admin.reply.results IN
      /\ r.imported + r.updated + r.skipped + Len(r.errors) = Cardinality(DataRows)
      /\ r.imported = Len(blacklist) - Len(admin.blacklistBefore)
      /\ \A i, j \in DOMAIN blacklist :
           blacklist[i].licensePlate = blacklist[j].licensePlate => i = j

\* A file with one plate in two rows, imported into a table without it.
C30_RepeatedPlateOneEntry ==
    /\ ImportAccepted
    /\ \E j, k \in DataRows : j < k /\ PlateOfRow(j) = PlateOfRow(k) /\ j \in NewRows
    /\ admin.reply.results.imported = 1
    /\ admin.reply.results.imported + admin.reply.results.updated
         + admin.reply.results.skipped + Len(admin.reply.results.errors) = 2

\* The last call imported the csv of the last export into the table that was
\* exported, with updateExisting = false and skipDuplicates = true.
ReimportedExport ==
    /\ Imported
    /\ admin.csv # <<>>
    /\ admin.args.csvData = admin.csv
    /\ admin.blacklistBefore = admin.exported
    /\ ~admin.args.updateExisting /\ admin.args.skipDuplicates
    /\ admin.args.throws = {}

ActiveEntries(tbl) == { i \in DOMAIN tbl : tbl[i].isActive }

\* C23 as stated: importing the csv of blacklist.export with updateExisting =
\* false and skipDuplicates = true changes nothing: no entry is created or
\* modified, the number of active entries is the same, every exported row is
\* counted as skipped and there is no duplicate-plate error.
C23_ExportImportIdempotent ==
    ReimportedExport =>
      /\ blacklist = admin.blacklistBefore
      /\ Cardinality(ActiveEntries(blacklist))
           = Cardinality(ActiveEntries(admin.blacklistBefore))
      /\ ~admin.reply.rejected =>
           /\ admin.reply.results.skipped = admin.exportedCount
           /\ admin.reply.results.imported = 0
           /\ ErrorRows("Duplicate plate") = {}

----------------------------------------------------------------------------
(* Vehicle administration: vehicles.create, update and delete *)

VehicleConflict == "CONFLICT: Vehicle with this plate already exists"
DuplicateEntry == "ER_DUP_ENTRY: Duplicate entry for key licensePlate"

\* licensePlate: varchar(20).notNull().unique()
UniquePlate(tbl, plate, id) ==
    \A i \in DOMAIN tbl : i # id => tbl[i].licensePlate # plate

\* db.createVehicle: the plate is stored normalized; the insert fails on a
\* plate that is stored already.
CreateVehicle(tbl, plate) ==
    IF UniquePlate(tbl, NormalizePlate(plate), 0)
    THEN [threw |-> FALSE, tbl |-> Append(tbl, VehicleRow(NormalizePlate(plate), "active"))]
    ELSE [threw |-> TRUE, tbl |-> tbl]

\* What vehicles.update may change: the plate or the active flag.
VehicleChanges ==
    { [licensePlate |-> <<"c">>, isActive |-> Unset],
      [licensePlate |-> <<>>, isActive |-> "true"],
      [licensePlate |-> <<>>, isActive |-> "false"] }

\* db.updateVehicle: if (data.licensePlate) it is normalized; set(data) where id
UpdateVehicle(tbl, id, data) ==
    IF id \notin DOMAIN tbl THEN [threw |-> FALSE, tbl |-> tbl]
    ELSE IF data.licensePlate # <<>> /\ ~UniquePlate(tbl, NormalizePlate(data.licensePlate), id)
    THEN [threw |-> TRUE, tbl |-> tbl]
    ELSE [ threw |-> FALSE,
           tbl |-> [tbl EXCEPT
                      ![id].licensePlate = IF data.licensePlate # <<>>
                                           THEN NormalizePlate(data.licensePlate) ELSE @,
                      ![id].isActive = IF data.isActive = Unset THEN @
                                       ELSE data.isActive = "true"] ]

\* Variant: db.hardDeleteVehicle is called, the row is removed.
HardDeleteVehicle(tbl, id) ==
    IF id \notin DOMAIN tbl THEN tbl
    ELSE SubSeq(tbl, 1, id - 1) \o SubSeq(tbl, id + 1, Len(tbl))

\* db.deleteVehicle: set({ isActive: false }) where id
DeleteVehicle(tbl, id) ==
    IF id \notin DOMAIN tbl THEN tbl ELSE [tbl EXCEPT ![id].isActive = FALSE]

\* Variant: the plate is looked up as it was typed.
GetVehicleByPlateAsTyped(tbl, text) ==
    LET ids == { i \in DOMAIN tbl : tbl[i].licensePlate = text }
    IN IF ids = {} THEN NoVehicle
       ELSE [found |-> TRUE, id |-> MinOf(ids), isActive |-> tbl[MinOf(ids)].isActive]

\* existing = await getVehicleByPlate(input.licensePlate)
ExistingVehicle(tbl, text) == GetVehicleByPlate(tbl, text)

Accepted == [rejected |-> FALSE, error |-> "none"]
RejectedWith(error) == [rejected |-> TRUE, error |-> error]

\* vehicles.create
VehiclesCreate ==
    /\ admin.count < MaxAdmin
    /\ \E plate \in CreatePlates :
         LET existing == ExistingVehicle(vehicles, plate)
             created == CreateVehicle(vehicles, plate)
             args == [licensePlate |-> plate]
         IN IF existing.found
            THEN /\ admin' = AdminCall("vehicles.create", args, RejectedWith(VehicleConflict))
                 /\ UNCHANGED vehicles
            ELSE /\ vehicles' = created.tbl
                 /\ admin' = AdminCall("vehicles.create", args,
                                       IF created.threw THEN RejectedWith(DuplicateEntry)
                                       ELSE Accepted)
    /\ UNCHANGED <<blacklist, passages, barrierActions, notifLog, settings,
                   calls, nextReq, pendingNotifications, now, qh, drain, hw,
                   tgCall, runs>>

VehicleIds == 1..(Len(vehicles) + 1)

\* vehicles.update
VehiclesUpdate ==
    /\ admin.count < MaxAdmin
    /\ \E id \in VehicleIds, data \in VehicleChanges :
         LET updated == UpdateVehicle(vehicles, id, data)
             call == AdminCall("vehicles.update", [id |-> id, data |-> data],
                               IF updated.threw THEN RejectedWith(DuplicateEntry)
                               ELSE Accepted)
         IN /\ vehicles' = updated.tbl
            /\ admin' = [call EXCEPT
                           !.reactivated =
                              IF id \in admin.deleted /\ data.isActive = "true"
                                 /\ id \in DOMAIN vehicles
                              THEN @ \cup {id} ELSE @]
    /\ UNCHANGED <<blacklist, passages, barrierActions, notifLog, settings,
                   calls, nextReq, pendingNotifications, now, qh, drain, hw,
                   tgCall, runs>>

\* vehicles.delete
VehiclesDelete ==
    /\ admin.count < MaxAdmin
    /\ \E id \in VehicleIds :
         /\ vehicles' = DeleteVehicle(vehicles, id)
         /\ admin' = [ AdminCall("vehicles.delete", [id |-> id], Accepted) EXCEPT
                         !.deleted = IF id \in DOMAIN vehicles THEN @ \cup {id} ELSE @,
                         !.reactivated = @ \ {id} ]
    /\ UNCHANGED <<blacklist, passages, barrierActions, notifLog, settings,
                   calls, nextReq, pendingNotifications, now, qh, drain, hw,
                   tgCall, runs>>

\* The registry under administration: both create operations and the updates.
NextRegistry ==
    \/ VehiclesCreate
    \/ VehiclesUpdate
    \/ VehiclesDelete
    \/ BlacklistCreate
    \/ BlacklistSetActive

SpecRegistry == InitRegistry /\ [][NextRegistry]_vars

\* Plates in front of the camera while vehicles are administered.
RegistryPlates == { PlateOf(<<"c">>), PlateOf(<<"a", " ", "B">>) }

\* Vehicle administration between recognitions, one operation at a time.
NextVehicles ==
    \/ Quiescent /\ VehiclesCreate
    \/ Quiescent /\ VehiclesUpdate
    \/ Quiescent /\ VehiclesDelete
    \/ \E p \in {1} :
         \/ Quiescent /\ nextReq < MaxCalls /\ AnalyzeStart(p, {"true"})
         \/ AnalyzeRecognize(p, RegistryPlates)
         \/ AnalyzeBlacklistCheck(p)
         \/ AnalyzeAllowlistCheck(p)
         \/ AnalyzePassage(p)
         \/ AnalyzeBarrier(p)
         \/ AnalyzeNotify(p)
         \/ Respond(p)

SpecVehicles == InitRegistry /\ [][NextVehicles]_vars

----------------------------------------------------------------------------
(* Properties of the registry administration *)

NormalizedPlates(tbl) == { NormalizePlate(tbl[i].licensePlate) : i \in DOMAIN tbl }

NoSharedPlate(tbl) ==
    \A i, j \in DOMAIN tbl :
      NormalizePlate(tbl[i].licensePlate) = NormalizePlate(tbl[j].licensePlate) => i = j

VehicleOfCall(p) ==
    IF Truthy(calls[p].plate)
    THEN GetVehicleByPlate(vehicles, calls[p].plate.text).id
    ELSE 0

Decided(p) ==
    calls[p].op = "analyze" /\ calls[p].pc \in {"passage", "barrier", "notify", "done"}

\* Every vehicle that was there before the last administration call is there.
NoVehicleRemoved ==
    /\ Len(vehicles) >= Len(admin.vehiclesBefore)
    /\ \A id \in admin.deleted : id \in DOMAIN vehicles

\* A recognition of the plate of a deactivated vehicle is not Allowed and
\* opens nothing.
DeactivatedNeverAllowed ==
    \A p \in Procs :
      ( /\ Decided(p)
        /\ VehicleOfCall(p) # 0
        /\ ~vehicles[VehicleOfCall(p)].isActive )
        => /\ ~calls[p].isAllowed
           /\ ActionsOf(calls[p].req) = {}
           /\ calls[p].pc = "done" =>
                ~calls[p].result.isAllowed /\ calls[p].result.barrierOpened # "true"

\* C25 as stated: vehicles.delete removes no record, a deleted vehicle has
\* isActive = false after any sequence of router operations, and the plate of
\* a deactivated vehicle is never Allowed and never opens the barrier.
C25_DeletedStayInactive ==
    /\ NoVehicleRemoved
    /\ \A id \in admin.deleted : id \in DOMAIN vehicles => ~vehicles[id].isActive
    /\ DeactivatedNeverAllowed

\* C25, amended: vehicles.delete removes no record; a deleted vehicle has
\* isActive = false unless a later vehicles.update has set isActive = true; and
\* the plate of a vehicle that is deactivated is never Allowed and never opens
\* the barrier.
C25_DeletedInactiveUntilReactivated ==
    /\ NoVehicleRemoved
    /\ \A id \in admin.deleted :
         id \in DOMAIN vehicles =>
           (vehicles[id].isActive => id \in admin.reactivated)
    /\ (admin.op = "vehicles.delete" /\ admin.args.id \in DOMAIN vehicles)
         => ~vehicles[admin.args.id].isActive
    /\ DeactivatedNeverAllowed

\* The plate of a deleted vehicle was recognized with autoOpen and denied.
C25_DeletedVehicleDenied ==
    \E id \in admin.deleted :
      /\ calls[1].op = "analyze" /\ calls[1].pc = "done"
      /\ calls[1].autoOpen = "true"
      /\ VehicleOfCall(1) = id
      /\ ~vehicles[id].isActive
      /\ ~calls[1].result.isAllowed
      /\ barrierActions = <<>>

----------------------------------------------------------------------------
(* The Telegram channel called on its own *)

\* Number of sendTelegramMessage calls in one behaviour.
MaxTelegram == 2

\* What the request to the Bot API may do: answer ok, answer with a status
\* that is not OK, answer {ok: false}, or fail with a network exception.
TelegramTransports == {"ok", "notOk", "apiError", "exception"}

\* Variant: nothing catches the network exception.
FetchUncaught(transport) ==
    [net |-> IF transport = "ok" THEN "ok" ELSE "fail", threw |-> transport = "exception"]

\* try { fetch; if (!response.ok) return false; if (!result.ok) return false;
\* return true } catch { return false }
FetchTelegram(transport) ==
    [net |-> IF transport = "ok" THEN "ok" ELSE "fail", threw |-> FALSE]

\* sendTelegramMessage with the request's outcome spelled out. A photo is sent
\* by sendTelegramPhoto, which catches its own errors and does not change the
\* value returned.
TelegramCall(s, transport) ==
    LET f == FetchTelegram(transport)
        r == SendTelegramMessage(s, f.net)
    IN [ fetched |-> r.attempted, result |-> r.result /\ ~f.threw,
         threw |-> r.attempted /\ f.threw ]

SendTelegram ==
    /\ tgCall.count < MaxTelegram
    /\ \E transport \in TelegramTransports :
         LET r == TelegramCall(settings, transport)
         IN tgCall' = [ count |-> tgCall.count + 1, transport |-> transport,
                        fetched |-> r.fetched, result |-> r.result, threw |-> r.threw ]
    /\ UNCHANGED <<blacklist, vehicles, passages, barrierActions, notifLog, settings,
                   calls, nextReq, pendingNotifications, now, qh, drain, hw,
                   admin, runs>>

\* Telegram switched on or off or never set, with and without token and chat id.
TelegramSettings ==
    { [DefaultSettings EXCEPT !.telegram_enabled = e, !.telegram_configured = c] :
        e \in {Unset, "true", "false"}, c \in BOOLEAN }

InitTelegram ==
    /\ blacklist = InitialBlacklist
    /\ vehicles = InitialVehicles
    /\ passages = <<>>
    /\ barrierActions = <<>>
    /\ notifLog = <<>>
    /\ settings \in TelegramSettings
    /\ calls = [p \in Procs |-> IdleCall]
    /\ nextReq = 0
    /\ pendingNotifications = <<>>
    /\ now = <<12, 0>>
    /\ qh = NoQh
    /\ drain = NoDrain
    /\ hw = NoHw
    /\ admin = NoAdmin
    /\ tgCall = NoTg
    /\ runs = NoRuns

NextTelegram ==
    \/ SendTelegram
    \/ QueueOrSendNotification

SpecTelegram == InitTelegram /\ [][NextTelegram]_vars

TelegramOff == settings.telegram_enabled = "false" \/ ~settings.telegram_configured

\* C26: sendTelegramMessage never throws; with Telegram disabled or the bot
\* token or chat id unset it returns false and makes no request; on a response
\* that is not OK, an API error or a network exception it returns false; and a
\* dispatch with Telegram unconfigured still invokes the owner channel and is
\* sent when that channel succeeds.
C26_TelegramSoftFailure ==
    /\ tgCall.count > 0 =>
         /\ ~tgCall.threw
         /\ TelegramOff => ~tgCall.fetched /\ ~tgCall.result
         /\ tgCall.transport # "ok" => ~tgCall.result
         /\ tgCall.result => tgCall.fetched
    /\ (DeliveredNow /\ ~settings.telegram_configured) =>
         LET n == notifLog[Len(notifLog)] IN
         /\ n.owner \in OwnerOutcomes
         /\ n.telegram = "skipped"
         /\ n.owner = "ok" => qh.result.sent

\* The request fails with a network exception and the call returns false.
C26_NetworkExceptionReturnsFalse ==
    /\ tgCall.count > 0
    /\ tgCall.transport = "exception"
    /\ tgCall.fetched /\ ~tgCall.result /\ ~tgCall.threw

----------------------------------------------------------------------------
(* Properties of the result of recognition.analyze *)

\* The Passage written for the call that handler p has answered.
PassageOfCall(p) == passages[calls[p].result.passageId]

ActiveVehicleMatches(plate) ==
    /\ Truthy(plate)
    /\ \E i \in DOMAIN vehicles :
         vehicles[i].licensePlate = NormalizePlate(plate.text) /\ vehicles[i].isActive

\* What holds of every result, whichever way barrierOpened is compared.
ResultConsistent(p) ==
    LET r == calls[p].result IN
    /\ r.passageId \in DOMAIN passages
    /\ r.barrierOpened = "true" => r.isAllowed /\ calls[p].autoOpen = "true"
    /\ r.isBlacklisted => ~r.isAllowed /\ r.barrierOpened = "false"
    /\ r.isAllowed => ActiveVehicleMatches(calls[p].plate)
    /\ PassageOfCall(p).isAllowed = r.isAllowed

\* C27 as stated: in every result of analyze and in its Passage, barrierOpened
\* implies isAllowed and autoOpen, isBlacklisted implies isAllowed = false and
\* barrierOpened = false, isAllowed implies an active vehicle of that plate, and
\* the Passage's isAllowed and barrierOpened are the values returned.
C27_PassageEqualsResult ==
    \A p \in Procs :
      (Analyzing(p) /\ Returned(p)) =>
        /\ ResultConsistent(p)
        /\ calls[p].result.barrierOpened
             = (IF PassageOfCall(p).barrierOpened THEN "true" ELSE "false")

\* C27, amended: as above, except that the Passage's barrierOpened is the
\* returned value read as a boolean: when the vehicle is allowed and autoOpen
\* was left out, the result carries barrierOpened = undefined and the Passage
\* stores false.
C27_PassageEqualsResultAsBoolean ==
    \A p \in Procs :
      (Analyzing(p) /\ Returned(p)) =>
        /\ ResultConsistent(p)
        /\ PassageOfCall(p).barrierOpened = (calls[p].result.barrierOpened = "true")
        /\ calls[p].result.barrierOpened = "undefined"
             <=> (calls[p].result.isAllowed /\ calls[p].autoOpen = "absent")

\* An allowed vehicle recognized by a call that left autoOpen out.
C27_AllowedWithoutAutoOpen ==
    \E p \in Procs :
      /\ Analyzing(p) /\ Returned(p)
      /\ calls[p].result.isAllowed
      /\ calls[p].autoOpen = "absent"
      /\ calls[p].result.barrierOpened = "undefined"
      /\ ~PassageOfCall(p).barrierOpened

BlacklistedPassagesOf(plate) ==
    { j \in DOMAIN passages :
        /\ passages[j].notes # <<>>
        /\ Head(passages[j].notes) = "BLACKLISTED:"
        /\ passages[j].licensePlate = plate }

\* C28 as stated: after any sequence of analyze calls, failed Passage writes
\* and notifications included, the attempt counter of every blacklist entry is
\* the number of Passages annotated "BLACKLISTED:" written for its plate.
C28_CounterEqualsBlockedPassages ==
    Quiescent =>
      \A i \in DOMAIN blacklist :
        blacklist[i].attemptCount
          = InitialBlacklist[i].attemptCount
              + Cardinality(BlacklistedPassagesOf(blacklist[i].licensePlate))

----------------------------------------------------------------------------
(* Quiet hours service: overlapping sendPendingSummary invocations *)

\* Number of sendPendingSummary invocations under way at the same time.
MaxRuns == 2

Runners == 1..MaxRuns

\* An invocation that has not started.
IdleRun ==
    [ pc |-> "idle",
      pending |-> {},          \* ids of the rows read by getPendingNotifications
      owner |-> "skipped", telegram |-> "skipped",
      sent |-> 0, failed |-> 0,
      result |-> [sent |-> 0, failed |-> 0] ]

\* const pending = await getPendingNotifications(true);
\* if (pending.length === 0) return { sent: 0, failed: 0 }
RunRead(r) ==
    /\ runs[r].pc = "idle"
    /\ LET pending == GetPendingNotifications(pendingNotifications)
       IN runs' = [runs EXCEPT ![r] =
                     [IdleRun EXCEPT !.pending = pending,
                                     !.pc = IF pending = {} THEN "returned" ELSE "owner"]]
    /\ UNCHANGED <<blacklist, vehicles, passages, barrierActions, notifLog, settings,
                   calls, nextReq, pendingNotifications, now, qh, drain, hw,
                   admin, tgCall>>

\* try { if (await notifyOwner(...)) sent++ } catch { failed++ }
RunOwner(r) ==
    /\ runs[r].pc = "owner"
    /\ \E owner \in OwnerOutcomes :
         runs' = [runs EXCEPT ![r] =
                    [@ EXCEPT !.pc = "telegram",
                              !.owner = owner,
                              !.sent = IF owner = "ok" THEN @ + 1 ELSE @,
                              !.failed = IF owner = "throw" THEN @ + 1 ELSE @]]
    /\ UNCHANGED <<blacklist, vehicles, passages, barrierActions, notifLog, settings,
                   calls, nextReq, pendingNotifications, now, qh, drain, hw,
                   admin, tgCall>>

\* try { if (telegram_enabled === "true") if (await sendTelegramMessage(...)) sent++ }
RunTelegram(r) ==
    /\ runs[r].pc = "telegram"
    /\ \E net \in NetOutcomes :
         LET tg == IF settings.telegram_enabled = "true"
                   THEN SendTelegramMessage(settings, net)
                   ELSE [attempted |-> FALSE, result |-> FALSE]
             d == Delivery(runs[r].owner, tg, net)
         IN /\ runs' = [runs EXCEPT ![r] =
                          [@ EXCEPT !.pc = "mark",
                                    !.telegram = d.telegram,
                                    !.sent = IF tg.result THEN @ + 1 ELSE @]]
            /\ notifLog' = LogNotification(notifLog, "quiet_hours_summary", r, d)
    /\ UNCHANGED <<blacklist, vehicles, passages, barrierActions, settings,
                   calls, nextReq, pendingNotifications, now, qh, drain, hw,
                   admin, tgCall>>

\* if (sent > 0) await markNotificationsSent(ids); return { sent, failed }
RunMark(r) ==
    /\ runs[r].pc = "mark"
    /\ pendingNotifications' =
         IF MarksAsSent(runs[r].sent)
         THEN MarkNotificationsSent(pendingNotifications,
                                    IdsToMark(runs[r].pending, pendingNotifications))
         ELSE pendingNotifications
    /\ runs' = [runs EXCEPT ![r] =
                  [@ EXCEPT !.pc = "returned",
                            !.result = [sent |-> runs[r].sent, failed |-> runs[r].failed]]]
    /\ UNCHANGED <<blacklist, vehicles, passages, barrierActions, notifLog, settings,
                   calls, nextReq, now, qh, drain, hw,
                   admin, tgCall>>

\* Tables of notifications queued during quiet hours, none of them sent yet.
QueuedTables ==
    LET one == CreatePendingNotification(
                 <<>>, [type |-> "blacklist_detected", severity |-> "high"], "high")
        two == CreatePendingNotification(
                 one, [type |-> "blacklist_detected", severity |-> Unset], "medium")
    IN {one, two}

InitOverlap ==
    /\ blacklist = InitialBlacklist
    /\ vehicles = InitialVehicles
    /\ passages = <<>>
    /\ barrierActions = <<>>
    /\ notifLog = <<>>
    /\ settings \in DrainSettings
    /\ calls = [p \in Procs |-> IdleCall]
    /\ nextReq = 0
    /\ pendingNotifications \in QueuedTables
    /\ now = <<23, 30>>
    /\ qh = NoQh
    /\ drain = NoDrain
    /\ hw = NoHw
    /\ admin = NoAdmin
    /\ tgCall = NoTg
    /\ runs = [r \in Runners |-> IdleRun]

NextOverlap ==
    \E r \in Runners :
      \/ RunRead(r)
      \/ RunOwner(r)
      \/ RunTelegram(r)
      \/ RunMark(r)

SpecOverlap == InitOverlap /\ [][NextOverlap]_vars

\* The invocation has delivered its digest through at least one channel.
DigestDelivered(r) == runs[r].pc \in {"mark", "returned"} /\ runs[r].sent > 0

\* C29 as stated: when two sendPendingSummary invocations overlap, no pending
\* event is in two delivered digests: the two invocations never both deliver a
\* digest containing the same event.
C29_NoEventInTwoDigests ==
    \A r1, r2 \in Runners :
      (r1 # r2 /\ DigestDelivered(r1) /\ DigestDelivered(r2)) =>
        runs[r1].pending \cap runs[r2].pending = {}

====
